---------------------------- MODULE Spec2Model ----------------------------
(***************************************************************************)
(* Model of the special-function benchmark driver src/src/main.cpp.        *)
(*                                                                         *)
(* Six specifications are given.                                           *)
(*   Spec    one run of main(): filter parsing, the requested set, the     *)
(*           approximant construction loop, and the sweep of test_func     *)
(*           calls over both run_sets; one step per test_func call.  Every *)
(*           symbol of libalm.so has resolved.                             *)
(*   SpecDL  the same run with symbols of libalm.so missing.               *)
(*   SpecTF  one call of test_func followed by operator<<, stepped through *)
(*           its statements with the output buffer modelled slot by slot.  *)
(*   SpecSeq two such calls, one after the other.                          *)
(*   SpecTD  transform_domain alone, in rounding arithmetic.               *)
(*   SpecReg a sequence of calls of scalar_func_apply, vec_func_apply and  *)
(*           sctl_apply, and evaluations of the adapters they return.      *)
(*                                                                         *)
(* A time in seconds is a pair <<sec, nsec>> with 0 <= nsec < 10^9 and a   *)
(* domain bound of the table an integer number of thousandths, both held   *)
(* exactly; the values transform_domain computes with are numbers of a     *)
(* small binary floating-point format.                                     *)
(***************************************************************************)
EXTENDS Integers, Sequences, FiniteSets, TLC

(***************************************************************************)
(* Bounds of the model.                                                    *)
(***************************************************************************)
\* Largest number of command-line arguments after the program name.
MaxArgs == 2
\* Largest tv_sec the monotonic clock returns.
MaxSec == 1
\* test_func alone: the input buffer holds 16, 32, .. 16 * MaxBlocks samples.
MaxBlocks == 1
\* test_func alone: the repeat count ranges over 1 .. MaxRepeat.
MaxRepeat == 2
\* transform_domain alone: the significand of the floating-point format has
\* MantBits bits and its finest spacing is 2^-FracBits.
MantBits == 3
FracBits == 2
\* transform_domain alone: domain bounds lie in -MaxDom .. MaxDom.
MaxDom == 3
\* transform_domain alone: a sample holds 1 .. MaxLen values.
MaxLen == 1
\* The adapter builders alone: at most MaxRegs adapters are built.
MaxRegs == 2

(***************************************************************************)
(* The backend maps built in main().  Only the keys matter to the          *)
(* dispatcher; the adapter stored under a key is described by FunT and     *)
(* ValT below.  A key listed twice in an initializer list (asin, acos and   *)
(* atan of the two std maps) is kept once by std::unordered_map.           *)
(***************************************************************************)
\* Keys of fort_funs (main.cpp:482-495).
fort_funs ==
    { "bessel_J0", "bessel_Y0" }

\* Keys of hank10x_funs (main.cpp:497-503).
hank10x_funs ==
    { "hank103" }

\* Keys of gsl_funs (main.cpp:505-542).
gsl_funs ==
    { "bessel_I0", "bessel_I1", "bessel_I2", "bessel_J0", "bessel_J1", "bessel_J2", "bessel_K0",
      "bessel_K1", "bessel_K2", "bessel_Y0", "bessel_Y1", "bessel_Y2", "bessel_j0", "bessel_j1",
      "bessel_j2", "bessel_y0", "bessel_y1", "bessel_y2", "cos", "cos_pi", "erf", "erfc", "exp",
      "hermite_0", "hermite_1", "hermite_2", "hermite_3", "lgamma", "log", "pow13",
      "riemann_zeta", "sin", "sin_pi", "sinc", "sinc_pi", "tgamma" }

\* Keys of gsl_complex_funs (main.cpp:545-556).
gsl_complex_funs ==
    { "cos", "dilog", "lgamma", "log", "sin" }

\* Keys of boost_funs_fx1 (main.cpp:558-591).
boost_funs_fx1 ==
    { "bessel_I0", "bessel_I1", "bessel_I2", "bessel_J0", "bessel_J1", "bessel_J2", "bessel_K0",
      "bessel_K1", "bessel_K2", "bessel_Y0", "bessel_Y1", "bessel_Y2", "bessel_j0", "bessel_j1",
      "bessel_j2", "bessel_y0", "bessel_y1", "bessel_y2", "cos_pi", "digamma", "erf", "erfc",
      "hermite_0", "hermite_1", "hermite_2", "hermite_3", "lgamma", "pow13", "riemann_zeta",
      "sin_pi", "sinc_pi", "tgamma" }

\* Keys of boost_funs_dx1 (main.cpp:593-626).
boost_funs_dx1 ==
    { "bessel_I0", "bessel_I1", "bessel_I2", "bessel_J0", "bessel_J1", "bessel_J2", "bessel_K0",
      "bessel_K1", "bessel_K2", "bessel_Y0", "bessel_Y1", "bessel_Y2", "bessel_j0", "bessel_j1",
      "bessel_j2", "bessel_y0", "bessel_y1", "bessel_y2", "cos_pi", "digamma", "erf", "erfc",
      "hermite_0", "hermite_1", "hermite_2", "hermite_3", "lgamma", "pow13", "riemann_zeta",
      "sin_pi", "sinc_pi", "tgamma" }

\* Keys of std_funs_fx1 (main.cpp:628-660).
std_funs_fx1 ==
    { "acos", "acosh", "asin", "asinh", "atan", "atanh", "cos", "cos_pi", "cosh", "erf", "erfc",
      "exp", "exp10", "exp2", "lgamma", "log", "log10", "log2", "pow13", "pow3.5", "rsqrt", "sin",
      "sin_pi", "sinh", "sqrt", "tan", "tanh", "tgamma" }

\* Keys of std_funs_dx1 (main.cpp:662-694).
std_funs_dx1 ==
    { "acos", "acosh", "asin", "asinh", "atan", "atanh", "cos", "cos_pi", "cosh", "erf", "erfc",
      "exp", "exp10", "exp2", "lgamma", "log", "log10", "log2", "pow13", "pow3.5", "rsqrt", "sin",
      "sin_pi", "sinh", "sqrt", "tan", "tanh", "tgamma" }

\* Keys of amdlibm_funs_fx1 (main.cpp:696-718).
amdlibm_funs_fx1 ==
    { "acos", "acosh", "asin", "asinh", "atan", "atanh", "cos", "cosh", "exp", "exp10", "exp2",
      "log", "log10", "log2", "pow13", "pow3.5", "sin", "sinh", "sqrt", "tan", "tanh" }

\* Keys of amdlibm_funs_dx1 (main.cpp:720-742).
amdlibm_funs_dx1 ==
    { "acos", "acosh", "asin", "asinh", "atan", "atanh", "cos", "cosh", "exp", "exp10", "exp2",
      "log", "log10", "log2", "pow13", "pow3.5", "sin", "sinh", "sqrt", "tan", "tanh" }

\* Keys of amdlibm_funs_dx4 (main.cpp:744-756).
amdlibm_funs_dx4 ==
    { "cos", "exp", "exp2", "log", "log2", "pow13", "pow3.5", "sin", "tan" }

\* Keys of amdlibm_funs_fx8 (main.cpp:758-770).
amdlibm_funs_fx8 ==
    { "cos", "exp", "exp2", "log", "log2", "pow13", "pow3.5", "sin", "tan" }

\* Keys of sleef_funs_fx1 (main.cpp:772-800).
sleef_funs_fx1 ==
    { "acos", "acosh", "asin", "asinh", "atan", "atanh", "cos", "cos_pi", "cosh", "erf", "erfc",
      "exp", "exp10", "exp2", "lgamma", "log", "log10", "log2", "pow13", "pow3.5", "sin",
      "sin_pi", "sinh", "sqrt", "tan", "tanh", "tgamma" }

\* Keys of sleef_funs_dx1 (main.cpp:802-830).
sleef_funs_dx1 ==
    { "acos", "acosh", "asin", "asinh", "atan", "atanh", "cos", "cos_pi", "cosh", "erf", "erfc",
      "exp", "exp10", "exp2", "lgamma", "log", "log10", "log2", "pow13", "pow3.5", "sin",
      "sin_pi", "sinh", "sqrt", "tan", "tanh", "tgamma" }

\* Keys of sleef_funs_fx8 (main.cpp:832-860).
sleef_funs_fx8 ==
    { "acos", "acosh", "asin", "asinh", "atan", "atanh", "cos", "cos_pi", "cosh", "erf", "erfc",
      "exp", "exp10", "exp2", "lgamma", "log", "log10", "log2", "pow13", "pow3.5", "sin",
      "sin_pi", "sinh", "sqrt", "tan", "tanh", "tlgamma" }

\* Keys of sleef_funs_dx4 (main.cpp:862-890).
sleef_funs_dx4 ==
    { "acos", "acosh", "asin", "asinh", "atan", "atanh", "cos", "cos_pi", "cosh", "erf", "erfc",
      "exp", "exp10", "exp2", "lgamma", "log", "log10", "log2", "pow13", "pow3.5", "sin",
      "sin_pi", "sinh", "sqrt", "tan", "tanh", "tlgamma" }

\* Keys of sleef_funs_fx16 (main.cpp:893-923).
sleef_funs_fx16 ==
    { "acos", "acosh", "asin", "asinh", "atan", "atanh", "cos", "cos_pi", "cosh", "erf", "erfc",
      "exp", "exp10", "exp2", "lgamma", "log", "log10", "log2", "pow13", "pow3.5", "sin",
      "sin_pi", "sinh", "sqrt", "tan", "tanh", "tlgamma" }

\* Keys of sleef_funs_dx8 (main.cpp:925-954).
sleef_funs_dx8 ==
    { "acos", "acosh", "asin", "asinh", "atan", "atanh", "cos", "cos_pi", "cosh", "erf", "erfc",
      "exp", "exp10", "exp2", "lgamma", "log", "log10", "log2", "pow13", "pow3.5", "sin",
      "sin_pi", "sinh", "sqrt", "tan", "tanh", "tlgamma" }

\* Keys of af_funs_fx8 (main.cpp:957-979).
af_funs_fx8 ==
    { "acos", "acosh", "asin", "asinh", "atan", "atanh", "cos", "cosh", "exp", "exp10", "exp2",
      "log", "log10", "log2", "pow13", "pow3.5", "sin", "sinh", "sqrt", "tan", "tanh" }

\* Keys of af_funs_dx4 (main.cpp:981-1003).
af_funs_dx4 ==
    { "acos", "acosh", "asin", "asinh", "atan", "atanh", "cos", "cosh", "exp", "exp10", "exp2",
      "log", "log10", "log2", "pow13", "pow3.5", "sin", "sinh", "sqrt", "tan", "tanh" }

\* Keys of af_funs_fx16 (main.cpp:1006-1028).
af_funs_fx16 ==
    { "acos", "acosh", "asin", "asinh", "atan", "atanh", "cos", "cosh", "exp", "exp10", "exp2",
      "log", "log10", "log2", "pow13", "pow3.5", "sin", "sinh", "sqrt", "tan", "tanh" }

\* Keys of af_funs_dx8 (main.cpp:1030-1052).
af_funs_dx8 ==
    { "acos", "acosh", "asin", "asinh", "atan", "atanh", "cos", "cosh", "exp", "exp10", "exp2",
      "log", "log10", "log2", "pow13", "pow3.5", "sin", "sinh", "sqrt", "tan", "tanh" }

\* Keys of sctl_funs_fx8 (main.cpp:1055-1069).
sctl_funs_fx8 ==
    { "copy", "cos", "exp", "rsqrt", "sin" }

\* Keys of sctl_funs_dx4 (main.cpp:1071-1085).
sctl_funs_dx4 ==
    { "copy", "cos", "exp", "rsqrt", "sin" }

\* Keys of sctl_funs_fx16 (main.cpp:1087-1101).
sctl_funs_fx16 ==
    { "copy", "cos", "exp", "rsqrt", "sin" }

\* Keys of sctl_funs_dx8 (main.cpp:1103-1117).
sctl_funs_dx8 ==
    { "copy", "cos", "exp", "rsqrt", "sin" }

\* Keys of eigen_funs (main.cpp:1119-1126).
eigen_funs ==
    { "acos", "acosh", "asin", "asinh", "atan", "atanh", "cos", "cosh", "digamma", "erf", "erfc",
      "exp", "lgamma", "log", "log10", "ndtri", "pow13", "pow3.5", "rsqrt", "sin", "sinh", "sqrt",
      "tan", "tanh" }

\* Keys of potential_baobzi_funs (main.cpp:1187-1201).
potential_baobzi_funs ==
    { "bessel_I0", "bessel_I1", "bessel_I2", "bessel_J0", "bessel_J1", "bessel_J2", "bessel_Y0",
      "bessel_Y1", "bessel_Y2", "hermite_0", "hermite_1", "hermite_2", "hermite_3" }

StringOrder ==
    << "acos", "acosh", "asin", "asinh", "atan", "atanh", "bessel_I0", "bessel_I1", "bessel_I2",
       "bessel_J0", "bessel_J1", "bessel_J2", "bessel_K0", "bessel_K1", "bessel_K2", "bessel_Y0",
       "bessel_Y1", "bessel_Y2", "bessel_j0", "bessel_j1", "bessel_j2", "bessel_y0", "bessel_y1",
       "bessel_y2", "copy", "cos", "cos_pi", "cosh", "digamma", "dilog", "erf", "erfc", "exp",
       "exp10", "exp2", "hank103", "hermite_0", "hermite_1", "hermite_2", "hermite_3", "lgamma",
       "log", "log10", "log2", "ndtri", "not_a_function", "pow13", "pow3.5", "riemann_zeta",
       "rsqrt", "sin", "sin_pi", "sinc", "sinc_pi", "sinh", "sqrt", "tan", "tanh", "tgamma",
       "tlgamma" >>

\* The tokens a command line is drawn from: names known to many backends, to
\* one backend, to the approximant table only by default domain, and to none.
FilterPool == { "sin", "hank103", "bessel_I0", "copy", "not_a_function" }

\* std::less<std::string> on the strings of the model: StringOrder lists them
\* in ascending byte-wise order, Rank[s] is the position of s.
Rank == [s \in { StringOrder[i] : i \in 1..Len(StringOrder) } |->
            CHOOSE i \in 1..Len(StringOrder) : StringOrder[i] = s]

Less(a, b) == Rank[a] < Rank[b]

\* Past-the-end iterator of a std::set.
End == "<end>"

\* s.begin(): the least element, or end().
SetBegin(s) == IF s = {} THEN End ELSE CHOOSE x \in s : \A y \in s : ~Less(y, x)

\* ++it for an iterator at x.
SetNext(s, x) == SetBegin({ y \in s : Less(x, y) })

\* The elements of a std::set in iteration order.
RECURSIVE Iter(_)
Iter(s) == IF s = {} THEN << >> ELSE << SetBegin(s) >> \o Iter(s \ { SetBegin(s) })

Range(q) == { q[i] : i \in 1..Len(q) }

\* Fault: the loop starts at i = 1, as if argv[0] were the program name.
RECURSIVE parse_args_from_1(_, _)
parse_args_from_1(argc, argv) ==
    IF argc <= 1 THEN {} ELSE parse_args_from_1(argc - 1, argv) \cup { argv[argc] }

\* parse_args(argc, argv): every one of the argc strings is inserted.
RECURSIVE parse_args(_, _)
parse_args(argc, argv) ==
    IF argc <= 0 THEN {} ELSE parse_args(argc - 1, argv) \cup { argv[argc] }

\* std::set_intersection over two sorted ranges, as the merge it is.
RECURSIVE set_intersection(_, _)
set_intersection(a, b) ==
    IF a = << >> \/ b = << >> THEN << >>
    ELSE IF Less(Head(a), Head(b)) THEN set_intersection(Tail(a), b)
    ELSE IF Less(Head(b), Head(a)) THEN set_intersection(a, Tail(b))
    ELSE << Head(a) >> \o set_intersection(Tail(a), Tail(b))

(***************************************************************************)
(* Registry: the maps main() builds, and the sweep of test_func calls.     *)
(***************************************************************************)
\* Keys of each map that is filled by an initializer list.
Maps ==
    [ fort_funs |-> fort_funs, hank10x_funs |-> hank10x_funs, gsl_funs |-> gsl_funs,
      gsl_complex_funs |-> gsl_complex_funs,
      boost_funs_fx1 |-> boost_funs_fx1, boost_funs_dx1 |-> boost_funs_dx1,
      std_funs_fx1 |-> std_funs_fx1, std_funs_dx1 |-> std_funs_dx1,
      amdlibm_funs_fx1 |-> amdlibm_funs_fx1, amdlibm_funs_dx1 |-> amdlibm_funs_dx1,
      amdlibm_funs_dx4 |-> amdlibm_funs_dx4, amdlibm_funs_fx8 |-> amdlibm_funs_fx8,
      sleef_funs_fx1 |-> sleef_funs_fx1, sleef_funs_dx1 |-> sleef_funs_dx1,
      sleef_funs_fx8 |-> sleef_funs_fx8, sleef_funs_dx4 |-> sleef_funs_dx4,
      sleef_funs_fx16 |-> sleef_funs_fx16, sleef_funs_dx8 |-> sleef_funs_dx8,
      af_funs_fx8 |-> af_funs_fx8, af_funs_dx4 |-> af_funs_dx4,
      af_funs_fx16 |-> af_funs_fx16, af_funs_dx8 |-> af_funs_dx8,
      sctl_funs_fx8 |-> sctl_funs_fx8, sctl_funs_dx4 |-> sctl_funs_dx4,
      sctl_funs_fx16 |-> sctl_funs_fx16, sctl_funs_dx8 |-> sctl_funs_dx8,
      eigen_funs |-> eigen_funs ]

\* The maps whose definition stands between #ifdef __AVX512F__ and #endif
\* (main.cpp:892-955 and 1005-1053).  The four sctl maps are defined outside.
Avx512Maps == { "sleef_funs_fx16", "sleef_funs_dx8", "af_funs_fx16", "af_funs_dx8" }

\* FUN_T of a map: the template argument test_func is instantiated with.
FunT(m) ==
    CASE m = "hank10x_funs" -> "fun_cdx1_x2"
      [] m = "baobzi_funs"  -> "baobzi"
      [] m = "eigen_funs"   -> "OPS"
      [] OTHER              -> "multi_eval_func"

\* The element types a map can be probed with: the type of its
\* multi_eval_func, cdouble for the pair-output map, and float and double for
\* the Eigen operations, whose test_func overload is a template on Real.
ValT(m) ==
    CASE m \in { "boost_funs_fx1", "std_funs_fx1", "amdlibm_funs_fx1", "amdlibm_funs_fx8",
                 "sleef_funs_fx1", "sleef_funs_fx8", "sleef_funs_fx16", "af_funs_fx8",
                 "af_funs_fx16", "sctl_funs_fx8", "sctl_funs_fx16" } -> { "float" }
      [] m \in { "gsl_complex_funs", "hank10x_funs" } -> { "cdouble" }
      [] m = "eigen_funs" -> { "float", "double" }
      [] OTHER -> { "double" }

\* VEC_T::size() of the vec_func_apply and VecLen of the sctl_apply
\* instantiations a map is filled with; 1 for a map of any other adapter.
LaneWidth(m) ==
    CASE m \in { "amdlibm_funs_dx4", "sleef_funs_dx4", "af_funs_dx4", "sctl_funs_dx4" } -> 4
      [] m \in { "amdlibm_funs_fx8", "sleef_funs_fx8", "af_funs_fx8", "sctl_funs_fx8",
                 "sleef_funs_dx8", "af_funs_dx8", "sctl_funs_dx8" } -> 8
      [] m \in { "sleef_funs_fx16", "af_funs_fx16", "sctl_funs_fx16" } -> 16
      [] OTHER -> 1

\* for (size_t i = 0; i < N; i += lanes), each pass loading and storing
\* indices i .. i + lanes - 1: one past the highest index touched.
StrideEnd(N, lanes) == ((N + lanes - 1) \div lanes) * lanes

\* The backends of a build: every map main() defines, with each element type.
Backends(avx) ==
    { b \in (DOMAIN Maps \cup { "baobzi_funs" }) \X { "float", "double", "cdouble" } :
        b[2] \in ValT(b[1]) /\ (avx \/ b[1] \notin Avx512Maps) }

\* The maps whose keys main.cpp:1129-1154 inserts into fun_union.
FunUnionScalarMaps ==
    { "amdlibm_funs_fx1", "amdlibm_funs_dx1", "boost_funs_fx1", "boost_funs_dx1",
      "eigen_funs", "fort_funs", "gsl_funs", "gsl_complex_funs", "hank10x_funs",
      "sleef_funs_fx1", "sleef_funs_dx1", "std_funs_fx1", "std_funs_dx1" }

\* The maps whose keys main.cpp:1156-1177 inserts into fun_union.
FunUnionVectorMaps(avx) ==
    { "af_funs_dx4", "amdlibm_funs_dx4", "amdlibm_funs_fx8", "sctl_funs_dx4",
      "sleef_funs_dx4", "sleef_funs_fx8" }
    \cup (IF avx THEN { "af_funs_dx8", "sctl_funs_dx8", "sleef_funs_dx8", "sleef_funs_fx16" }
                 ELSE {})

\* Fault: the loops over the sctl maps are missing, as they are for
\* sctl_funs_fx8.
FunUnionMapsNoSctl(avx) ==
    FunUnionScalarMaps \cup (FunUnionVectorMaps(avx) \ { "sctl_funs_dx4", "sctl_funs_dx8" })

\* The maps whose keys main.cpp:1128-1177 inserts into fun_union.
FunUnionMaps(avx) == FunUnionScalarMaps \cup FunUnionVectorMaps(avx)

\* Fault: fun_union also receives a name that is a key of no map.
FunUnionExtra(avx) ==
    UNION { Maps[m] : m \in FunUnionScalarMaps \cup FunUnionVectorMaps(avx) }
        \cup { "not_a_function" }

\* fun_union after main.cpp:1128-1177.
FunUnion(avx) == UNION { Maps[m] : m \in FunUnionMaps(avx) }

P(prefix, map, vals) == [ prefix |-> prefix, map |-> map, vals |-> vals ]

\* The test_func calls of one pass of the key loop, main.cpp:1219-1251, in
\* program order; the calls between #ifdef __AVX512F__ and #endif are there
\* in an AVX-512 build only.
Sweep(avx) ==
    << P("boost_fx1", "boost_funs_fx1", "float"), P("std_fx1", "std_funs_fx1", "float"),
       P("amdlibm_fx1", "amdlibm_funs_fx1", "float"),
       P("amdlibm_fx8", "amdlibm_funs_fx8", "float"),
       P("sleef_fx1", "sleef_funs_fx1", "float"), P("sleef_fx8", "sleef_funs_fx8", "float"),
       P("af_fx8", "af_funs_fx8", "float"), P("sctl_fx8", "sctl_funs_fx8", "float"),
       P("eigen_fxx", "eigen_funs", "float") >>
    \o (IF avx THEN << P("agnerfog_fx16", "af_funs_fx16", "float"),
                       P("sctl_fx16", "sctl_funs_fx16", "float"),
                       P("sleef_fx16", "sleef_funs_fx16", "float") >>
               ELSE << >>)
    \o << P("std_dx1", "std_funs_dx1", "double"), P("fort_dx1", "fort_funs", "double"),
          P("amdlibm_dx1", "amdlibm_funs_dx1", "double"),
          P("boost_dx1", "boost_funs_dx1", "double"), P("gsl_dx1", "gsl_funs", "double"),
          P("gsl_cdx1", "gsl_complex_funs", "cdouble"),
          P("sleef_dx1", "sleef_funs_dx1", "double"),
          P("hank10x_dx1", "hank10x_funs", "cdouble"),
          P("baobzi_dx1", "baobzi_funs", "double"), P("eigen_dxx", "eigen_funs", "double"),
          P("amdlibm_dx4", "amdlibm_funs_dx4", "double"),
          P("agnerfog_dx4", "af_funs_dx4", "double"),
          P("sctl_dx4", "sctl_funs_dx4", "double"), P("sleef_dx4", "sleef_funs_dx4", "double") >>
    \o (IF avx THEN << P("agnerfog_dx8", "af_funs_dx8", "double"),
                       P("sctl_dx8", "sctl_funs_dx8", "double"),
                       P("sleef_dx8", "sleef_funs_dx8", "double") >>
               ELSE << >>)

\* Fault: the vectors hold 1000 and 10000000 samples.
run_sets_decimal == << << 1000, 10000 >>, << 1000 * 10000, 1 >> >>

\* Fault: the two run_sets in the other order.
run_sets_swapped == << << 1024 * 10000, 1 >>, << 1024, 10000 >> >>

\* run_sets, main.cpp:1210: (n_eval, n_repeat) after the conversion to int.
run_sets == << << 1024, 10000 >>, << 1024 * 10000, 1 >> >>

\* Fault: the default domain is empty.
DefaultDomainEmpty == << 0, 0 >>

(***************************************************************************)
(* Params and the domain table.                                            *)
(***************************************************************************)
\* Params::domain of a default-constructed Params, in thousandths.
DefaultDomain == << 0, 1000 >>

\* The table of main.cpp:403-410, in thousandths (2 * M_PI = 6.283...).
ParamsTable ==
    [ sin_pi |-> << 0, 2000 >>, cos_pi |-> << 0, 2000 >>, sin |-> << 0, 6283 >>,
      cos |-> << 0, 6283 >>, tan |-> << 0, 6283 >>, asin |-> << -1000, 1000 >>,
      acos |-> << -1000, 1000 >>, atan |-> << -100000, 100000 >>, erf |-> << -1000, 1000 >>,
      erfc |-> << -1000, 1000 >>, exp |-> << -10000, 10000 >>, log |-> << 0, 10000 >>,
      asinh |-> << -100000, 100000 >>, acosh |-> << 1000, 1000000 >>,
      atanh |-> << -1000, 1000 >>, bessel_Y0 |-> << 100, 30000 >>,
      bessel_Y1 |-> << 100, 30000 >>, bessel_Y2 |-> << 100, 30000 >> ]

\* Fault: a missing key is inserted with the domain (-1, 1).
ParamsInsertWide(params, name) ==
    IF name \in DOMAIN params THEN params
    ELSE [ k \in DOMAIN params \cup { name } |->
             IF k = name THEN << -1000, 1000 >> ELSE params[k] ]

\* params[name] on a std::unordered_map: a missing key is inserted with a
\* default-constructed Params.  ParamsInsert is the map afterwards, ParamsAt
\* the element the expression refers to.
ParamsInsert(params, name) ==
    IF name \in DOMAIN params THEN params
    ELSE [ k \in DOMAIN params \cup { name } |->
             IF k = name THEN DefaultDomain ELSE params[k] ]

ParamsAt(params, name) == ParamsInsert(params, name)[name]

(***************************************************************************)
(* Clock.                                                                  *)
(***************************************************************************)
\* Nanoseconds in a second: the factor 1E-9 of get_wtime_diff.
NSEC_PER_SEC == 1000000000

\* The values get_wtime() can return: struct timespec readings.
Readings == [ tv_sec : 0..MaxSec, tv_nsec : { 0, NSEC_PER_SEC - 1 } ]

\* CLOCK_MONOTONIC: a later reading is not earlier than a former one.
NotBefore(ts, tf) ==
    \/ tf.tv_sec > ts.tv_sec
    \/ tf.tv_sec = ts.tv_sec /\ tf.tv_nsec >= ts.tv_nsec

\* The pairs of a start and a stop reading one call of test_func can take.
ClockPairs == { c \in Readings \X Readings : NotBefore(c[1], c[2]) }

\* Fault: the difference of the nanosecond fields is taken without its sign.
get_wtime_diff_unsigned(ts, tf) ==
    LET s == tf.tv_sec - ts.tv_sec
        n == tf.tv_nsec - ts.tv_nsec
    IN  << s, IF n < 0 THEN -n ELSE n >>

\* get_wtime_diff: (tf.sec - ts.sec) + (tf.nsec - ts.nsec) * 1E-9 seconds,
\* held as << whole seconds, nanoseconds >> of the same value.
get_wtime_diff(ts, tf) ==
    LET s == tf.tv_sec - ts.tv_sec
        n == tf.tv_nsec - ts.tv_nsec
    IN  IF n < 0 /\ s > 0 THEN << s - 1, n + NSEC_PER_SEC >>
        ELSE IF n > 0 /\ s < 0 THEN << s + 1, n - NSEC_PER_SEC >>
        ELSE << s, n >>

Zero == << 0, 0 >>

\* x > 0 for a time x.
Positive(x) == x[1] > 0 \/ (x[1] = 0 /\ x[2] > 0)

(***************************************************************************)
(* BenchResult, test_func and the reporter.                                *)
(***************************************************************************)
\* A member that no constructor has initialized holds << >>, one that has
\* been given the value v holds << v >>.
Unset == << >>

\* BenchResult(label): res has size 0, eval_time is 0.0, n_evals is not set.
BenchResult1(label) ==
    [ label |-> label, size |-> 0, eval_time |-> Zero, n_evals |-> Unset,
      params |-> DefaultDomain ]

\* BenchResult(label, size, n_evals, params).
BenchResult4(label, size, n_evals, params) ==
    [ label |-> label, size |-> size, eval_time |-> Zero, n_evals |-> << n_evals >>,
      params |-> params ]

\* Mevals(): n_evals / eval_time / 1E6.  The quotient is kept as its terms,
\* evaluations, seconds and the divisor 1E6; class says which kind of double
\* it is.
Mevals(br) ==
    [ class |-> IF br.n_evals = Unset THEN "indeterminate"
                ELSE IF br.eval_time # Zero THEN "finite"
                ELSE IF br.n_evals[1] = 0 THEN "nan"
                ELSE "inf",
      evals |-> br.n_evals, seconds |-> br.eval_time, per |-> 1000000 ]

\* label = library_prefix + "_" + name.
Label(library_prefix, name) == library_prefix \o "_" \o name

\* res_size of test_func: vals.size(), doubled for the pair-output FUN_T.
ResSize(fun_t, n) == IF fun_t = "fun_cdx1_x2" THEN 2 * n ELSE n

\* Fault: the evaluations are counted from the size of the output buffer.
NEvalsOutputs(fun_t, n, Nrepeat) == ResSize(fun_t, n) * Nrepeat

\* n_evals of test_func: vals.size() * Nrepeat.
NEvals(fun_t, n, Nrepeat) == n * Nrepeat

\* Fault: the early return for a missing name is not taken.
AbsentNever(funs, name) == FALSE

\* if (!funs.count(name)) return BenchResult<VAL_T>(label);
Absent(funs, name) == name \notin funs

\* test_func, both overloads: funs are the keys of the map passed, fun_t its
\* FUN_T, params the by-value copy of the domain table, n = vals_in.size(),
\* st and ft the two readings of get_wtime().
test_func(name, library_prefix, funs, fun_t, params, n, Nrepeat, st, ft) ==
    IF Absent(funs, name) THEN BenchResult1(Label(library_prefix, name))
    ELSE [ BenchResult4(Label(library_prefix, name), ResSize(fun_t, n),
                        NEvals(fun_t, n, Nrepeat), ParamsAt(params, name))
             EXCEPT !.eval_time = get_wtime_diff(st, ft) ]

\* The line operator<< writes for a result: label, Mevals(), domain.  The
\* mean column is a function of the backend's outputs and is left out.
Line(br) == [ label |-> br.label, Mevals |-> Mevals(br), domain |-> br.params ]

\* The columns of a line that do not depend on the clock.
Stable(line) == [ label |-> line.label, domain |-> line.domain ]

\* std::cout << "\n".
Blank == [ label |-> "", domain |-> << >> ]

\* Fault: operator<< writes the line of an empty result too.
PrintsAlways(br) == br.size >= 0

\* if (br.res.size()) of operator<<.
Prints(br) == br.size # 0

(***************************************************************************)
(* Floating-point arithmetic and transform_domain.  A number is held as an *)
(* integer count of Unit-ths; the format rounds to nearest, ties to even,  *)
(* as IEEE 754 binary formats do, with a significand of MantBits bits.     *)
(***************************************************************************)
RECURSIVE Pow2(_)
Pow2(n) == IF n <= 0 THEN 1 ELSE 2 * Pow2(n - 1)

\* 1.0 in Unit-ths.
Unit == Pow2(FracBits)

Abs(x) == IF x < 0 THEN -x ELSE x

Sign(x) == IF x < 0 THEN -1 ELSE 1

Max(a, b) == IF a >= b THEN a ELSE b

\* The number of bits of the magnitude a.
RECURSIVE BitLen(_)
BitLen(a) == IF a = 0 THEN 0 ELSE 1 + BitLen(a \div 2)

\* The multiple of q nearest to n, the even multiple on a tie.
RoundTo(n, q) ==
    LET a  == Abs(n)
        d  == a \div q
        r  == a % q
        up == IF 2 * r > q \/ (2 * r = q /\ d % 2 = 1) THEN d + 1 ELSE d
    IN  Sign(n) * up * q

\* The spacing of the format at magnitude a, never finer than grain.
Quantum(a, grain) == Max(grain, Pow2(BitLen(a) - MantBits))

\* The values of the format up to magnitude m.
Floats(m) == { x \in (-m)..m : RoundTo(x, Quantum(Abs(x), 1)) = x }

\* upper - lower, rounded.
FlSub(a, b) == RoundTo(a - b, Quantum(Abs(a - b), 1))

\* a + b, rounded.
FlAdd(a, b) == RoundTo(a + b, Quantum(Abs(a + b), 1))

\* a * b, rounded: the exact product counts Unit-ths of Unit-ths.
FlMul(a, b) ==
    LET n == a * b
        r == RoundTo(n, Quantum(Abs(n), Unit))
    IN  Sign(r) * (Abs(r) \div Unit)

\* Fault: the scaled sample is shifted by upper.
transform_domain_from_upper(vals, lower, upper) ==
    [ i \in DOMAIN vals |-> FlAdd(FlMul(vals[i], FlSub(upper, lower)), upper) ]

\* transform_domain(vals, lower, upper): delta = upper - lower, then
\* vals.array() * delta + lower, elementwise in the arithmetic of VAL_T.
transform_domain(vals, lower, upper) ==
    LET delta == FlSub(upper, lower)
    IN  [ i \in DOMAIN vals |-> FlAdd(FlMul(vals[i], delta), lower) ]

(***************************************************************************)
(* State.                                                                  *)
(***************************************************************************)
VARIABLES
    \* main()
    avx512,        \* whether the build defines __AVX512F__
    argv,          \* the command-line arguments after the program name
    pc,            \* where main() stands
    input_keys,    \* std::set<std::string> input_keys
    fun_union,     \* std::set<std::string> fun_union
    keys_to_eval,  \* std::set<std::string> keys_to_eval
    params,        \* the domain table of main()
    baobzi_funs,   \* name -> approximant handle
    run,           \* index into run_sets of the current run_set
    key,           \* the key a loop over keys_to_eval stands at, or End
    slot,          \* index into Sweep of the next test_func call of this key
    cout,          \* the lines written to std::cout, see Stable
    cerr,          \* the messages written to std::cerr
    calls,         \* the test_func calls made so far
    unresolved,    \* the symbols dlsym() returned NULL for
    live,          \* the approximants that exist, by the serial of their creation
    rand_pos,      \* how many numbers std::rand() has given so far
    vecs,          \* vals, fvals and cvals of the current run_set
    \* test_func, stepped (SpecTF)
    tpc,           \* where test_func stands
    fn,            \* the call: name, prefix and the adapter funs holds, if any
    n_in,          \* vals_in.size()
    Nrepeat,       \* the repeat count
    k,             \* the loop counter of the timed loop
    buf,           \* res.res: slot -> what was last written there
    st,            \* start reading, << >> before it is taken
    ft,            \* stop reading, << >> before it is taken
    br,            \* the BenchResult under construction, << >> before
    os,            \* the lines written by operator<<
    ncall,         \* which test_func call of the caller this is
    log,           \* the clock readings, passes and lines so far, in order
    stamp,         \* res.res: slot -> the pass of the timed loop that stored last
    \* transform_domain (SpecTD)
    tdpc,          \* where the caller of transform_domain stands
    lower,         \* the lower bound passed
    upper,         \* the upper bound passed
    sample,        \* the vector passed first
    mapped,        \* the vector returned last
    \* scalar_func_apply, vec_func_apply, sctl_apply (SpecReg)
    static_fn,     \* template instantiation -> the callable its static fn captured
    registered,    \* the registrations made: name, callable passed, adapter returned
    ran            \* the adapters evaluated: registration and the callable that ran

mainVars == << avx512, argv, pc, input_keys, fun_union, keys_to_eval, params,
               baobzi_funs, run, key, slot, cout, cerr, calls, unresolved, live,
               rand_pos, vecs >>

sampleVars == << rand_pos, vecs >>

tfVars == << tpc, fn, n_in, Nrepeat, k, buf, st, ft, br, os, ncall, log, stamp >>

tdVars == << tdpc, lower, upper, sample, mapped >>

regVars == << static_fn, registered, ran >>

\* What main() and what test_func leave alone.
nonMainVars == << tfVars, tdVars, regVars >>
nonTFVars == << mainVars, tdVars, regVars >>
nonTDVars == << mainVars, tfVars, regVars >>
nonRegVars == << mainVars, tfVars, tdVars >>

vars == << mainVars, tfVars, tdVars, regVars >>

\* Command lines: every sequence of at most MaxArgs tokens of the pool.
ArgVectors == UNION { [ 1..n -> FilterPool ] : n \in 0..MaxArgs }

\* test_func is not running.
TFIdle ==
    /\ tpc = "idle" /\ fn = << >> /\ n_in = 0 /\ Nrepeat = 0 /\ k = 0
    /\ buf = << >> /\ st = << >> /\ ft = << >> /\ br = << >> /\ os = << >>
    /\ ncall = 0 /\ log = << >> /\ stamp = << >>

\* transform_domain is not under test.
TDIdle ==
    tdpc = "idle" /\ lower = 0 /\ upper = 0 /\ sample = << >> /\ mapped = << >>

\* No adapter has been built.
RegIdle == static_fn = << >> /\ registered = << >> /\ ran = {}

\* main() is not running.
MainIdle ==
    /\ avx512 = FALSE /\ argv = << >> /\ pc = "idle"
    /\ input_keys = {} /\ fun_union = {} /\ keys_to_eval = {}
    /\ params = ParamsTable /\ baobzi_funs = << >>
    /\ run = 0 /\ key = End /\ slot = 0 /\ cout = << >> /\ cerr = << >>
    /\ calls = << >> /\ unresolved = {} /\ live = {} /\ rand_pos = 0
    /\ vecs = << >>

(***************************************************************************)
(* main().                                                                 *)
(***************************************************************************)
\* The i-th number of the std::rand() stream, which main() never seeds,
\* scaled as 0.5 * (Random + 1) scales it into [0, 1].
Rand(i) == (i * 3 + 1) % (Unit + 1)

\* Of every vector the model keeps the first Kept elements.
Kept == MaxLen + 1

\* 0.5 * (Eigen::ArrayXd::Random(n_eval) + 1.0) drawn at stream position pos.
RandomReal(pos) == [ j \in 1..Kept |-> Rand(pos + j) ]

\* The complex analog: real and imaginary part are one number each.
RandomComplex(pos) == [ j \in 1..Kept |-> << Rand(pos + 2 * j - 1), Rand(pos + 2 * j) >> ]

\* static_cast<float>: the format of float has a shorter significand.
cast_float(v) == RoundTo(v, Max(1, Pow2(BitLen(Abs(v)) - (MantBits - 1))))

\* main.cpp:1214-1216: vals, fvals = vals.cast<float>(), cvals.
DrawVecs(pos, n_eval) ==
    [ vals  |-> RandomReal(pos),
      fvals |-> [ j \in 1..Kept |-> cast_float(RandomReal(pos)[j]) ],
      cvals |-> RandomComplex(pos + n_eval) ]

\* The vector main() passes for an element type.
VecOf(vals_t) ==
    CASE vals_t = "float"   -> "fvals"
      [] vals_t = "double"  -> "vals"
      [] vals_t = "cdouble" -> "cvals"

\* Fault: test_func reorders the vector of its caller in place.
vals_in_reversed(vals_in) ==
    [ j \in DOMAIN vals_in |-> vals_in[Len(vals_in) + 1 - j] ]

\* The caller's vector after a test_func call: vals_in is a const reference
\* and transform_domain returns a new vector, so it is what it was.
vals_in_after(vals_in) == vals_in

\* Every symbol of libalm.so is taken to have resolved.
Init ==
    /\ avx512 \in BOOLEAN
    /\ argv \in ArgVectors
    /\ pc = "main"
    /\ input_keys = {} /\ fun_union = {} /\ keys_to_eval = {}
    /\ params = ParamsTable
    /\ baobzi_funs = << >>
    /\ run = 0 /\ key = End /\ slot = 0
    /\ cout = << >> /\ cerr = << >> /\ calls = << >>
    /\ unresolved = {}
    /\ live = {} /\ rand_pos = 0 /\ vecs = << >>
    /\ TFIdle /\ TDIdle /\ RegIdle

\* Fault: an empty intersection falls back to every known function.
KeysToEvalFallback(union, keys) ==
    IF Range(set_intersection(Iter(union), Iter(keys))) # {}
    THEN Range(set_intersection(Iter(union), Iter(keys)))
    ELSE union

\* Fault: a filter with a token that is no known name selects nothing.
KeysToEvalStrict(union, keys) ==
    IF Cardinality(keys) > 0 THEN (IF keys \subseteq union THEN keys ELSE {})
    ELSE union

\* The requested set, main.cpp:1179-1184.
KeysToEval(union, keys) ==
    IF Cardinality(keys) > 0 THEN Range(set_intersection(Iter(union), Iter(keys)))
    ELSE union

\* main.cpp:401 and 1128-1184: the filter, fun_union and keys_to_eval.
Dispatch ==
    /\ pc = "main"
    /\ input_keys' = parse_args(Len(argv), argv)
    /\ fun_union' = FunUnion(avx512)
    /\ keys_to_eval' = KeysToEval(fun_union', input_keys')
    /\ key' = SetBegin(keys_to_eval')
    /\ pc' = "baobzi"
    /\ UNCHANGED << avx512, argv, params, baobzi_funs, run, slot, cout, cerr, calls >>
    /\ UNCHANGED sampleVars
    /\ UNCHANGED live
    /\ UNCHANGED unresolved
    /\ UNCHANGED nonMainVars

\* Fault: the approximant is centred on the lower bound of the domain.
create_baobzi_func_left(infun, domain) ==
    LET hl     == (domain[2] - domain[1]) \div 2
        center == domain[1]
    IN  [ oracle |-> infun, lo |-> center - hl, hi |-> center + hl ]

\* create_baobzi_func(infun, domain): the handle of an approximant of the
\* oracle over center +- half length, main.cpp:386-398, with
\* hl = 0.5 * (domain.second - domain.first) and center = domain.first + hl.
create_baobzi_func(infun, domain) ==
    LET hl     == (domain[2] - domain[1]) \div 2
        center == domain[1] + hl
    IN  [ oracle |-> infun, lo |-> center - hl, hi |-> center + hl ]

\* std::shared_ptr<baobzi::Baobzi>(new baobzi::Baobzi(...)): the handle of
\* the id-th approximant built.
shared_ptr(obj, id) == [ obj |-> obj, id |-> id ]

\* baobzi_funs[key] = handle.
MapPut(m, name, v) ==
    [ x \in DOMAIN m \cup { name } |-> IF x = name THEN v ELSE m[x] ]

\* One pass of the loop main.cpp:1203-1208 over a key that has an oracle.
CreateBaobzi ==
    /\ pc = "baobzi" /\ key # End
    /\ key \in potential_baobzi_funs
    /\ LET h == shared_ptr(create_baobzi_func(key, ParamsAt(params, key)),
                           Len(SelectSeq(cerr, LAMBDA e : e.kind = "create")) + 1)
       IN  /\ baobzi_funs' = MapPut(baobzi_funs, key, h)
           /\ live' = live \cup { h.id }
    /\ params' = ParamsInsert(params, key)
    /\ key' = SetNext(keys_to_eval, key)
    /\ cerr' = Append(cerr, [ kind |-> "create", name |-> key ])
    /\ UNCHANGED << avx512, argv, pc, input_keys, fun_union, keys_to_eval, run, slot,
                    cout, calls >>
    /\ UNCHANGED sampleVars
    /\ UNCHANGED unresolved
    /\ UNCHANGED nonMainVars

\* Fault: an approximant is built for a key that has no oracle as well.
SkipBaobziBuilds ==
    /\ pc = "baobzi" /\ key # End
    /\ key \notin potential_baobzi_funs
    /\ LET h == shared_ptr(create_baobzi_func(key, ParamsAt(params, key)),
                           Len(SelectSeq(cerr, LAMBDA e : e.kind = "create")) + 1)
       IN  /\ baobzi_funs' = MapPut(baobzi_funs, key, h)
           /\ live' = live \cup { h.id }
    /\ params' = ParamsInsert(params, key)
    /\ key' = SetNext(keys_to_eval, key)
    /\ cerr' = Append(cerr, [ kind |-> "create", name |-> key ])
    /\ UNCHANGED << avx512, argv, pc, input_keys, fun_union, keys_to_eval, run, slot,
                    cout, calls >>
    /\ UNCHANGED sampleVars
    /\ UNCHANGED unresolved
    /\ UNCHANGED nonMainVars

\* One pass of the loop main.cpp:1203-1208 over a key that has none.
SkipBaobzi ==
    /\ pc = "baobzi" /\ key # End
    /\ key \notin potential_baobzi_funs
    /\ key' = SetNext(keys_to_eval, key)
    /\ UNCHANGED << avx512, argv, pc, input_keys, fun_union, keys_to_eval, params,
                    baobzi_funs, run, slot, cout, cerr, calls >>
    /\ UNCHANGED sampleVars
    /\ UNCHANGED live
    /\ UNCHANGED unresolved
    /\ UNCHANGED nonMainVars

\* Fault: the construction loop is left at once.
EndBaobziAtOnce ==
    /\ pc = "baobzi"
    /\ pc' = "run_sets" /\ run' = 1
    /\ UNCHANGED << avx512, argv, input_keys, fun_union, keys_to_eval, params,
                    baobzi_funs, key, slot, cout, cerr, calls >>
    /\ UNCHANGED live
    /\ UNCHANGED sampleVars
    /\ UNCHANGED unresolved
    /\ UNCHANGED nonMainVars

\* The loop main.cpp:1203-1208 ends; the loop over run_sets begins.
EndBaobzi ==
    /\ pc = "baobzi" /\ key = End
    /\ pc' = "run_sets" /\ run' = 1
    /\ UNCHANGED << avx512, argv, input_keys, fun_union, keys_to_eval, params,
                    baobzi_funs, key, slot, cout, cerr, calls >>
    /\ UNCHANGED sampleVars
    /\ UNCHANGED live
    /\ UNCHANGED unresolved
    /\ UNCHANGED nonMainVars

\* main.cpp:1211-1218: the next run_set is taken, the samples are drawn and
\* the loop over keys_to_eval begins.
StartRunSet ==
    /\ pc = "run_sets" /\ run <= Len(run_sets)
    /\ pc' = "sweep"
    /\ key' = SetBegin(keys_to_eval)
    /\ slot' = 1
    /\ cerr' = Append(cerr, [ kind |-> "run", n_eval |-> run_sets[run][1],
                               n_repeat |-> run_sets[run][2] ])
    /\ vecs' = DrawVecs(rand_pos, run_sets[run][1])
    /\ rand_pos' = rand_pos + 3 * run_sets[run][1]
    /\ UNCHANGED << avx512, argv, input_keys, fun_union, keys_to_eval, params,
                    baobzi_funs, run, cout, calls >>
    /\ UNCHANGED live
    /\ UNCHANGED unresolved
    /\ UNCHANGED nonMainVars

\* The keys of the map a sweep entry names.
Funs(map, baobzi) == IF map = "baobzi_funs" THEN DOMAIN baobzi ELSE Maps[map]

\* Fault: the call evaluates an approximant built for it.
funs_at_rebuilt(funs, name) == [ funs[name] EXCEPT !.id = @ + 1 ]

\* const FUN_T &f = funs.at(name).
funs_at(funs, name) == funs[name]

\* Fault: the separator is written after every line instead of every key.
WriteSeparated(stream, r) ==
    IF Prints(r) THEN Append(Append(stream, Stable(Line(r))), Blank) ELSE stream

\* operator<<(os, br) on the stream of main().
Write(stream, r) == IF Prints(r) THEN Append(stream, Stable(Line(r))) ELSE stream

\* The results test_func can return for one sweep entry: one for each pair
\* of readings the clock can give.
Results(name, p, baobzi, tbl, n, rep) ==
    { test_func(name, p.prefix, Funs(p.map, baobzi), FunT(p.map), tbl, n, rep, c[1], c[2]) :
        c \in ClockPairs }

\* One statement std::cout << test_func(key, prefix, map, params, vals,
\* n_repeat) of main.cpp:1219-1251; the BenchResult is a temporary that is
\* gone when the statement ends.
Probe ==
    /\ pc = "sweep" /\ key # End /\ slot <= Len(Sweep(avx512))
    /\ LET p == Sweep(avx512)[slot] IN
       \E r \in Results(key, p, baobzi_funs, params, run_sets[run][1], run_sets[run][2]) :
          /\ cout' = Write(cout, r)
          /\ calls' = Append(calls, [ run |-> run, name |-> key, prefix |-> p.prefix,
                                      map |-> p.map, vals |-> p.vals,
                                      vals_in |-> vecs[VecOf(p.vals)],
                                      domain |-> IF Prints(r) THEN r.params ELSE << >>,
                                      f |-> IF p.map = "baobzi_funs" /\ Prints(r)
                                            THEN funs_at(baobzi_funs, key) ELSE << >> ])
          /\ vecs' = [ vecs EXCEPT ![VecOf(p.vals)] = vals_in_after(@) ]
    /\ slot' = slot + 1
    /\ UNCHANGED rand_pos
    /\ UNCHANGED << avx512, argv, pc, input_keys, fun_union, keys_to_eval, params,
                    baobzi_funs, run, key, cerr >>
    /\ UNCHANGED live
    /\ UNCHANGED unresolved
    /\ UNCHANGED nonMainVars

\* std::cout << "\n" of main.cpp:1253 and the step to the next key.
Separator ==
    /\ pc = "sweep" /\ key # End /\ slot > Len(Sweep(avx512))
    /\ cout' = Append(cout, Blank)
    /\ key' = SetNext(keys_to_eval, key)
    /\ slot' = 1
    /\ UNCHANGED << avx512, argv, pc, input_keys, fun_union, keys_to_eval, params,
                    baobzi_funs, run, cerr, calls >>
    /\ UNCHANGED sampleVars
    /\ UNCHANGED live
    /\ UNCHANGED unresolved
    /\ UNCHANGED nonMainVars

\* The loop over keys_to_eval ends: on to the next run_set.
EndRunSet ==
    /\ pc = "sweep" /\ key = End
    /\ pc' = "run_sets" /\ run' = run + 1
    /\ UNCHANGED << avx512, argv, input_keys, fun_union, keys_to_eval, params,
                    baobzi_funs, key, slot, cout, cerr, calls >>
    /\ UNCHANGED sampleVars
    /\ UNCHANGED live
    /\ UNCHANGED unresolved
    /\ UNCHANGED nonMainVars

\* return 0, main.cpp:1256: the locals of main() are destroyed, and with
\* baobzi_funs the approximants its handles own.
Return ==
    /\ pc = "run_sets" /\ run > Len(run_sets)
    /\ pc' = "done"
    /\ live' = {}
    /\ UNCHANGED << avx512, argv, input_keys, fun_union, keys_to_eval, params,
                    baobzi_funs, run, key, slot, cout, cerr, calls >>
    /\ UNCHANGED sampleVars
    /\ UNCHANGED unresolved
    /\ UNCHANGED nonMainVars

Next ==
    \/ Dispatch
    \/ CreateBaobzi
    \/ SkipBaobzi
    \/ EndBaobzi
    \/ StartRunSet
    \/ Probe
    \/ Separator
    \/ EndRunSet
    \/ Return

Spec == Init /\ [][Next]_vars


(***************************************************************************)
(* Properties of the dispatcher and of the sweep (Spec).                   *)
(***************************************************************************)
\* The key sets of the maps test_func is called with during the sweep.
SweepKeyUnion ==
    UNION { Funs(Sweep(avx512)[i].map, baobzi_funs) : i \in 1..Len(Sweep(avx512)) }

\* The key sets of all backends of the build.
BackendKeyUnion == UNION { Funs(b[1], baobzi_funs) : b \in Backends(avx512) }

\* The sweep entry the next Probe step executes.
Pending == Sweep(avx512)[slot]

AtProbe == pc = "sweep" /\ key # End /\ slot <= Len(Sweep(avx512))

\* C1: started with no filter token, the requested set keys_to_eval is the
\* union of the key sets of all maps test_func is called with in the sweep,
\* af_funs_fx8, sctl_funs_fx8 and baobzi_funs included.
C1_NoFilterSweepsUnion ==
    (pc # "main" /\ Len(argv) = 0) => keys_to_eval = SweepKeyUnion

\* C1 witness: a run without arguments has computed its requested set, and
\* "copy", a name only the sctl maps hold, is in it.
C1_Witness ==
    /\ pc = "baobzi" /\ Len(argv) = 0
    /\ "copy" \in keys_to_eval /\ "copy" \in Maps["sctl_funs_fx8"]
    /\ keys_to_eval = SweepKeyUnion

\* C2: with a non-empty filter F (all arguments after the program name) the
\* requested set is (union of all backend key sets) \cap F; when that is
\* empty no test_func call is made and nothing falls back to all functions.
C2_FilterIntersects ==
    (pc # "main" /\ Len(argv) > 0) =>
        /\ keys_to_eval = BackendKeyUnion \cap Range(argv)
        /\ { calls[i].name : i \in 1..Len(calls) } \subseteq Range(argv)
        /\ (keys_to_eval = {} => calls = << >>)

\* C2 witness: a run filtered by a known and an unknown token has ended
\* with the known one as its requested set.
C2_Witness ==
    /\ pc = "done" /\ Range(argv) = { "sin", "not_a_function" }
    /\ keys_to_eval = { "sin" } /\ calls # << >>

\* C3: for a name absent from the map passed, test_func returns a result of
\* size 0, operator<< writes nothing for it, and main goes on to the next
\* test_func call of the same key.
C3_AbsentIsSilent ==
    [][ (AtProbe /\ key \notin Funs(Pending.map, baobzi_funs)) =>
          /\ \A r \in Results(key, Pending, baobzi_funs, params,
                               run_sets[run][1], run_sets[run][2]) :
                 r.size = 0 /\ Write(cout, r) = cout
          /\ cout' = cout
          /\ pc' = "sweep" /\ key' = key /\ slot' = slot + 1
          /\ Len(calls') = Len(calls) + 1 ]_vars

\* C3 witness: the latest call was for a name its map lacks, and the sweep
\* of that key goes on.
C3_Witness ==
    /\ pc = "sweep" /\ key # End /\ slot > 1 /\ slot <= Len(Sweep(avx512))
    /\ calls # << >>
    /\ calls[Len(calls)].name \notin Funs(calls[Len(calls)].map, baobzi_funs)
    /\ calls[Len(calls)].name = key

\* The probes a run owes: every requested name on every backend, in both
\* run_sets.
OwedProbes ==
    { << r, n, b[1], b[2] >> : r \in 1..Len(run_sets), n \in keys_to_eval,
                              b \in Backends(avx512) }

MadeProbes ==
    { << calls[i].run, calls[i].name, calls[i].map, calls[i].vals >> : i \in 1..Len(calls) }

\* C4: in each configuration, for every requested name, every backend is
\* probed exactly once: none is skipped and none is measured twice.
C4_EveryBackendOnce ==
    pc = "done" => (MadeProbes = OwedProbes /\ Len(calls) = Cardinality(OwedProbes))

\* The names a filter of unknown tokens only is made of.
UnknownOnly == Len(argv) > 0 /\ Range(argv) \cap BackendKeyUnion = {}


\* The run_sets announced on std::cerr so far.
Announced == SelectSeq(cerr, LAMBDA m : m.kind = "run")

\* C5: when every filter token is a name no backend has, nothing at all is
\* written to std::cout, no result line and no separator, in either
\* configuration: both loops over keys_to_eval are at their end as soon as
\* they begin, and the run returns after both run_sets were announced.
C5_UnknownNameNoOutput ==
    UnknownOnly =>
        /\ cout = << >> /\ calls = << >>
        /\ pc \in { "baobzi", "sweep" } => key = End
        /\ pc = "done" => (run = Len(run_sets) + 1 /\ Len(Announced) = Len(run_sets))

\* C5 witness: the run filtered by "not_a_function" has returned after both
\* run_sets.
C5_Witness ==
    /\ pc = "done" /\ argv = << "not_a_function" >> /\ run = Len(run_sets) + 1
    /\ cout = << >>


\* C6: every run executes two configurations in this order, (1024, 10000)
\* then (10240000, 1), and both sweep the same requested set.
C6_TwoConfigurations ==
    /\ \A i \in 1..Len(Announced) :
          /\ i <= 2
          /\ i = 1 => (Announced[i].n_eval = 1024 /\ Announced[i].n_repeat = 10000)
          /\ i = 2 => (Announced[i].n_eval = 10240000 /\ Announced[i].n_repeat = 1)
    /\ pc = "done" =>
          /\ Len(Announced) = 2
          /\ \A r \in 1..2 :
                { calls[i].name : i \in { j \in 1..Len(calls) : calls[j].run = r } }
                    = keys_to_eval

\* C6 witness: a filtered run has ended after both configurations swept.
C6_Witness ==
    /\ pc = "done" /\ argv = << "copy", "hank103" >> /\ Len(Announced) = 2
    /\ \E i, j \in 1..Len(calls) : calls[i].run = 1 /\ calls[j].run = 2

\* The lines one key produces: one per sweep entry whose map has the key,
\* in sweep order, then the separator.
Block(name) ==
    LET sw   == Sweep(avx512)
        has  == SelectSeq(sw, LAMBDA p : name \in Funs(p.map, baobzi_funs))
    IN  [ i \in 1..Len(has) |->
            [ label |-> Label(has[i].prefix, name),
              domain |-> ParamsAt(ParamsTable, name) ] ] \o << Blank >>

RECURSIVE Blocks(_)
Blocks(names) == IF names = << >> THEN << >> ELSE Block(Head(names)) \o Blocks(Tail(names))

Lanes == { 4, 8, 16 }

\* What funs can hold under the name: kind says which wrapper built the
\* std::function (scalar_func_apply, vec_func_apply, sctl_apply), or that
\* the entry is a pair-output function, an approximant or an Eigen
\* operation.
Adapters ==
    { [ kind |-> "scalar", fun_t |-> "multi_eval_func", lanes |-> 1,
        name |-> "sin", prefix |-> "std_dx1" ],
      [ kind |-> "pair", fun_t |-> "fun_cdx1_x2", lanes |-> 1,
        name |-> "hank103", prefix |-> "hank10x_dx1" ],
      [ kind |-> "baobzi", fun_t |-> "baobzi", lanes |-> 1,
        name |-> "bessel_J0", prefix |-> "baobzi_dx1" ],
      [ kind |-> "ops", fun_t |-> "OPS", lanes |-> 1,
        name |-> "sin", prefix |-> "eigen_dxx" ] }
    \cup { [ kind |-> "vec", fun_t |-> "multi_eval_func", lanes |-> l,
             name |-> "sin", prefix |-> "agnerfog" ] : l \in Lanes }
    \cup { [ kind |-> "sctl", fun_t |-> "multi_eval_func", lanes |-> l,
             name |-> "exp", prefix |-> "sctl" ] : l \in Lanes }

\* A call for a name the map has no entry for.
NoAdapter ==
    [ kind |-> "absent", fun_t |-> "multi_eval_func", lanes |-> 1,
      name |-> "not_a_function", prefix |-> "std_dx1" ]

\* The keys of the map the call is made with.
TFuns == IF fn.kind = "absent" THEN {} ELSE { fn.name }

\* vals_in.size(): whole blocks of the widest vector, as the run_sets have.
Sizes == { 16 * b : b \in 1..MaxBlocks }

\* A write of (component c of the output of) input i.
Wr(i, c) == << i, c >>

\* resptr[s] = ... : slot s records who wrote it.
Store(b, s, w) == [ b EXCEPT ![s] = b[s] \cup { w } ]

\* Fault: the pair of input i is stored at slots i and i + 1.
PairSlotsPacked(i) == << i, i + 1 >>

\* std::tie(resptr[i * 2], resptr[i * 2 + 1]) = f(vals[i]).
PairSlots(i) == << i * 2, i * 2 + 1 >>

\* for (i = 0; i < vals.size(); ++i) std::tie(...) = f(vals[i]), from i on.
RECURSIVE PairLoop(_, _, _)
PairLoop(b, i, n) ==
    IF i < n
    THEN PairLoop(Store(Store(b, PairSlots(i)[1], Wr(i, 0)), PairSlots(i)[2], Wr(i, 1)),
                  i + 1, n)
    ELSE b

\* One vector: lanes inputs loaded at vals + i, lanes outputs stored at
\* res + i, from lane j on.
RECURSIVE StoreAligned(_, _, _, _)
StoreAligned(b, i, j, lanes) ==
    IF j < lanes THEN StoreAligned(Store(b, i + j, Wr(i + j, 0)), i, j + 1, lanes) ELSE b

\* Fault: the stride loop leaves the last vector out.
RECURSIVE ApplyLoopSkipsLast(_, _, _, _)
ApplyLoopSkipsLast(b, i, n, lanes) ==
    IF i + lanes < n
    THEN ApplyLoopSkipsLast(StoreAligned(b, i, 0, lanes), i + lanes, n, lanes)
    ELSE b

\* for (i = 0; i < N; i += lanes) of scalar_func_apply (lanes = 1),
\* vec_func_apply and sctl_apply, from i on.
RECURSIVE ApplyLoop(_, _, _, _)
ApplyLoop(b, i, n, lanes) ==
    IF i < n THEN ApplyLoop(StoreAligned(b, i, 0, lanes), i + lanes, n, lanes) ELSE b

\* One pass of the body of the timed loop.
Pass(f, b, n) ==
    IF f.fun_t = "fun_cdx1_x2" THEN PairLoop(b, 0, n) ELSE ApplyLoop(b, 0, n, f.lanes)

\* The slots one pass stores to.
PassSlots(f, b, n) ==
    LET stored == Pass(f, [ x \in DOMAIN b |-> {} ], n)
    IN  { s \in DOMAIN b : stored[s] # {} }

\* The buffer after pass number pass: a slot the pass stores to holds the
\* value of that pass, any other slot what it held.
StampPass(f, sp, n, pass) ==
    LET slots == PassSlots(f, sp, n)
    IN  [ s \in DOMAIN sp |-> IF s \in slots THEN pass ELSE sp[s] ]

\* for (const auto &v : br.res) mean += v: the slots the mean is taken over.
MeanSlots(r) == 0..(r.size - 1)

\* operator<<(os, br) with every column.
Show(stream, r) == IF Prints(r) THEN Append(stream, Line(r)) ELSE stream

InitTF ==
    /\ MainIdle /\ TDIdle /\ RegIdle
    /\ tpc = "enter"
    /\ fn \in Adapters \cup { NoAdapter }
    /\ n_in \in Sizes
    /\ Nrepeat \in 1..MaxRepeat
    /\ k = 0 /\ buf = << >> /\ st = << >> /\ ft = << >> /\ br = << >> /\ os = << >>
    /\ ncall = 1 /\ log = << >> /\ stamp = << >>

\* An entry of log: what happened, in which call, and the clock reading if
\* one was taken.
Event(e, t) == [ e |-> e, call |-> ncall, t |-> t ]

\* The latest clock reading of the log, << >> if there is none.
RECURSIVE LastReading(_)
LastReading(l) ==
    IF l = << >> THEN << >>
    ELSE IF l[Len(l)].t # << >> THEN l[Len(l)].t
    ELSE LastReading(SubSeq(l, 1, Len(l) - 1))

\* CLOCK_MONOTONIC: the readings that can follow those of the log.
Now(l) == IF LastReading(l) = << >> THEN Readings
          ELSE { r \in Readings : NotBefore(LastReading(l), r) }

\* main.cpp:153-155 and 223-225: no entry under the name.
TFAbsent ==
    /\ tpc = "enter" /\ Absent(TFuns, fn.name)
    /\ br' = BenchResult1(Label(fn.prefix, fn.name))
    /\ tpc' = "return"
    /\ UNCHANGED << fn, n_in, Nrepeat, k, buf, st, ft, os >>
    /\ UNCHANGED << ncall, log >>
    /\ UNCHANGED nonTFVars
    /\ UNCHANGED stamp

\* main.cpp:157-167 and 227-234: the result is constructed.
TFConstruct ==
    /\ tpc = "enter" /\ ~Absent(TFuns, fn.name)
    /\ br' = BenchResult4(Label(fn.prefix, fn.name), ResSize(fn.fun_t, n_in),
                          NEvals(fn.fun_t, n_in, Nrepeat), ParamsAt(ParamsTable, fn.name))
    /\ buf' = [ s \in 0..(br'.size - 1) |-> {} ]
    /\ stamp' = [ s \in 0..(br'.size - 1) |-> 0 ]
    /\ tpc' = "start"
    /\ UNCHANGED << fn, n_in, Nrepeat, k, st, ft, os >>
    /\ UNCHANGED << ncall, log >>
    /\ UNCHANGED nonTFVars

\* Fault: a warm-up pass is run before the start reading is taken.
TFStartWarm ==
    /\ tpc = "start"
    /\ st' \in Now(log)
    /\ k' = 0
    /\ tpc' = "loop"
    /\ buf' = Pass(fn, buf, n_in)
    /\ UNCHANGED << fn, n_in, Nrepeat, ft, br, os >>
    /\ log' = Append(log, Event("start", st'))
    /\ UNCHANGED ncall
    /\ UNCHANGED nonTFVars
    /\ UNCHANGED stamp

\* const struct timespec st = get_wtime().
TFStart ==
    /\ tpc = "start"
    /\ st' \in Now(log)
    /\ k' = 0
    /\ tpc' = "loop"
    /\ UNCHANGED << fn, n_in, Nrepeat, buf, ft, br, os >>
    /\ log' = Append(log, Event("start", st'))
    /\ UNCHANGED ncall
    /\ UNCHANGED nonTFVars
    /\ UNCHANGED stamp

\* One pass of for (long k = 0; k < Nrepeat; k++).
TFRepeat ==
    /\ tpc = "loop" /\ k < Nrepeat
    /\ buf' = Pass(fn, buf, n_in)
    /\ stamp' = StampPass(fn, stamp, n_in, k + 1)
    /\ k' = k + 1
    /\ UNCHANGED << tpc, fn, n_in, Nrepeat, st, ft, br, os >>
    /\ log' = Append(log, Event("pass", << >>))
    /\ UNCHANGED ncall
    /\ UNCHANGED nonTFVars

\* Fault: the result line is written while the timed window is still open.
TFStopAfterShow ==
    /\ tpc = "loop" /\ k >= Nrepeat
    /\ ft' \in { r \in Readings : NotBefore(st, r) }
    /\ br' = [ br EXCEPT !.eval_time = get_wtime_diff(st, ft') ]
    /\ tpc' = "done"
    /\ os' = Show(os, br')
    /\ UNCHANGED << fn, n_in, Nrepeat, k, buf, st >>
    /\ log' = log \o << Event("line", << >>), Event("stop", ft') >>
    /\ UNCHANGED ncall
    /\ UNCHANGED nonTFVars
    /\ UNCHANGED stamp

\* ft = get_wtime(); res.eval_time = get_wtime_diff(&st, &ft); return res.
TFStop ==
    /\ tpc = "loop" /\ k >= Nrepeat
    /\ ft' \in { r \in Readings : NotBefore(st, r) }
    /\ br' = [ br EXCEPT !.eval_time = get_wtime_diff(st, ft') ]
    /\ tpc' = "return"
    /\ UNCHANGED << fn, n_in, Nrepeat, k, buf, st, os >>
    /\ log' = Append(log, Event("stop", ft'))
    /\ UNCHANGED ncall
    /\ UNCHANGED nonTFVars
    /\ UNCHANGED stamp

\* The caller writes the returned result: os << test_func(...).
TFShow ==
    /\ tpc = "return"
    /\ os' = Show(os, br)
    /\ tpc' = "done"
    /\ UNCHANGED << fn, n_in, Nrepeat, k, buf, st, ft, br >>
    /\ log' = (IF Prints(br) THEN Append(log, Event("line", << >>)) ELSE log)
    /\ UNCHANGED ncall
    /\ UNCHANGED nonTFVars
    /\ UNCHANGED stamp

NextTF ==
    \/ TFAbsent
    \/ TFConstruct
    \/ TFStart
    \/ TFRepeat
    \/ TFStop
    \/ TFShow

SpecTF == InitTF /\ [][NextTF]_vars

(***************************************************************************)
(* Properties of one test_func call (SpecTF).                              *)
(***************************************************************************)
\* The call has returned a result that operator<< reports.
Reported == tpc = "done" /\ br # << >> /\ Prints(br)

\* C8: every reported result with repeats >= 1 and buffer size >= 1 has an
\* elapsed time > 0 and a throughput that is finite and > 0, whatever the
\* two readings of the monotonic clock were.
C8_ThroughputPositive ==
    (Reported /\ Nrepeat >= 1 /\ br.size >= 1) =>
        /\ Positive(br.eval_time)
        /\ Mevals(br).class = "finite"
        /\ Mevals(br).evals[1] > 0

\* C9: the throughput of a reported result is (number of inputs * repeats)
\* / elapsed seconds / 10^6 for every adapter; the pair-output adapter too
\* counts its inputs, not its twice as many outputs.
C9_ThroughputCountsInputs ==
    Reported =>
        /\ Mevals(br) = [ class |-> IF get_wtime_diff(st, ft) = Zero THEN "inf" ELSE "finite",
                          evals |-> << n_in * Nrepeat >>,
                          seconds |-> get_wtime_diff(st, ft),
                          per |-> 1000000 ]
        /\ Len(os) = 1 /\ os[1].Mevals = Mevals(br)

\* C9 witness: a pair-output call of two repeats was reported; its buffer
\* is twice its input.
C9_Witness ==
    /\ Reported /\ fn.kind = "pair" /\ Nrepeat = 2 /\ k = 2
    /\ br.size = 2 * n_in /\ br.eval_time # Zero /\ os # << >>

\* The inputs that wrote slot set S exactly: every write of input i went to
\* a slot of S, and every slot of S has a write of i.
WroteExactly(i, S) == { s \in DOMAIN buf : \E c \in {0, 1} : Wr(i, c) \in buf[s] } = S

\* C10: the output buffer of a non-empty result has M * (number of inputs)
\* slots, M = 2 exactly for the pair-output adapter and 1 for the scalar,
\* batched, approximant and Eigen-operation ones; once a pass has run,
\* input i of the pair-output adapter has written exactly slots 2i and
\* 2i + 1, and input i of any other adapter exactly slot i.
C10_BufferSize ==
    (br # << >> /\ Prints(br)) =>
        /\ br.size = (IF fn.kind = "pair" THEN 2 ELSE 1) * n_in
        /\ DOMAIN buf = 0..(br.size - 1)
        /\ k >= 1 =>
              \A i \in 0..(n_in - 1) :
                 IF fn.kind = "pair"
                 THEN /\ WroteExactly(i, { 2 * i, 2 * i + 1 })
                      /\ buf[2 * i] = { Wr(i, 0) } /\ buf[2 * i + 1] = { Wr(i, 1) }
                 ELSE WroteExactly(i, { i })

\* C10 witness: the pair-output adapter has run a pass over a buffer twice
\* its input, and the last input wrote the last two slots.
C10_Witness ==
    /\ tpc = "loop" /\ k = 1 /\ fn.kind = "pair"
    /\ br.size = 2 * n_in
    /\ buf[2 * n_in - 2] = { Wr(n_in - 1, 0) } /\ buf[2 * n_in - 1] = { Wr(n_in - 1, 1) }


(***************************************************************************)
(* transform_domain alone (SpecTD): one call on a sample of [0, 1] and a   *)
(* domain lower < upper, then a second call on the vector returned.        *)
(***************************************************************************)
\* The values of a canonical sample: the numbers of the format in [0, 1].
Canonical == { v \in Floats(Unit) : v >= 0 }

Samples == UNION { [ 1..n -> Canonical ] : n \in 1..MaxLen }

\* The bounds a domain can have.
Bounds == Floats(MaxDom * Unit)

InitTD ==
    /\ MainIdle /\ TFIdle /\ RegIdle
    /\ tdpc = "call"
    /\ lower \in Bounds /\ upper \in Bounds /\ lower < upper
    /\ sample \in Samples
    /\ mapped = << >>

\* vals = transform_domain(vals_in, lower, upper).
TDCall ==
    /\ tdpc = "call"
    /\ mapped' = transform_domain(sample, lower, upper)
    /\ tdpc' = "returned"
    /\ UNCHANGED << lower, upper, sample >>
    /\ UNCHANGED nonTDVars

\* transform_domain applied to its own result.
TDAgain ==
    /\ tdpc = "returned"
    /\ mapped' = transform_domain(mapped, lower, upper)
    /\ tdpc' = "again"
    /\ UNCHANGED << lower, upper, sample >>
    /\ UNCHANGED nonTDVars

NextTD ==
    \/ TDCall
    \/ TDAgain

SpecTD == InitTD /\ [][NextTD]_vars

\* C11: for lower < upper and a sample of [0, 1], every mapped value lies in
\* [lower, upper], 0 maps to lower, 1 maps to upper, and the order of the
\* sample values is kept.
C11_AffineIntoDomain ==
    tdpc = "returned" =>
        \A i \in DOMAIN sample :
           /\ lower <= mapped[i] /\ mapped[i] <= upper
           /\ sample[i] = 0 => mapped[i] = lower
           /\ sample[i] = Unit => mapped[i] = upper
           /\ \A j \in DOMAIN sample : sample[i] <= sample[j] => mapped[i] <= mapped[j]

\* C12: with the domain (0, 1) transform_domain returns its argument
\* unchanged, and so does a second application to the result.
C12_UnitDomainIdentity ==
    (lower = 0 /\ upper = Unit) =>
        /\ tdpc = "returned" => mapped = sample
        /\ tdpc = "again" => mapped = sample

\* C12 witness: a sample with a value strictly inside (0, 1) went through
\* the domain (0, 1) twice.
C12_Witness ==
    /\ tdpc = "again" /\ lower = 0 /\ upper = Unit
    /\ \E i \in DOMAIN sample : sample[i] > 0 /\ sample[i] < Unit
    /\ mapped = sample


(***************************************************************************)
(* Properties of the samples (Spec).                                       *)
(***************************************************************************)
\* The position of the std::rand() stream when run_set r is entered.
RECURSIVE StartPos(_)
StartPos(r) == IF r <= 1 THEN 0 ELSE StartPos(r - 1) + 3 * run_sets[r - 1][1]

\* vals, fvals and cvals as drawn at the start of run_set r.
Drawn(r) == DrawVecs(StartPos(r), run_sets[r][1])

\* C13: within one configuration the samples are drawn once, before any
\* probe, and no test_func call changes them: every call receives the
\* vector of its element type as drawn, so backends of one element type
\* probing one name map identical inputs; and every name is mapped with its
\* own domain, the table's or the default.
C13_SharedSamples ==
    /\ [](pc = "sweep" => vecs = Drawn(run))
    /\ [](calls # << >> =>
            LET c == calls[Len(calls)] IN
              /\ c.vals_in = Drawn(c.run)[VecOf(c.vals)]
              /\ c.domain # << >> => c.domain = ParamsAt(ParamsTable, c.name))
    /\ [][vecs' # vecs => (pc = "run_sets" /\ pc' = "sweep" /\ slot' = 1)]_vars

\* C13 witness: two backends of element type double have just measured
\* the same name in the second configuration, on the same vector.
C13_Witness ==
    /\ pc = "sweep" /\ run = 2 /\ Len(calls) >= 2
    /\ LET c == calls[Len(calls)]
           d == calls[Len(calls) - 1]
       IN  /\ c.name = d.name /\ c.map # d.map /\ c.vals = "double" /\ d.vals = "double"
           /\ c.domain # << >> /\ d.domain = c.domain
           /\ c.vals_in = d.vals_in /\ c.vals_in = vecs.vals


(***************************************************************************)
(* Properties of the approximants (Spec).                                  *)
(***************************************************************************)
\* The requested names that have an oracle to approximate.
ToApproximate == keys_to_eval \cap potential_baobzi_funs

\* The construction messages written so far.
Created == SelectSeq(cerr, LAMBDA e : e.kind = "create")

\* C14: every approximant is completely constructed before the first
\* configuration starts and so before any start timestamp: while the
\* construction loop runs nothing has been announced or measured, when it
\* is left every requested approximant exists, and no later step constructs.
C14_BuiltBeforeTiming ==
    /\ [](pc = "baobzi" => (calls = << >> /\ Announced = << >>))
    /\ [](pc \notin { "main", "baobzi" } => DOMAIN baobzi_funs = ToApproximate)
    /\ [][(baobzi_funs' # baobzi_funs \/ Created' # Created) =>
            (pc = "baobzi" /\ pc' = "baobzi" /\ calls' = << >>)]_vars

\* C14 witness: the first configuration has been announced with an
\* approximant built and nothing measured yet.
C14_Witness ==
    /\ pc = "sweep" /\ run = 1 /\ calls = << >> /\ Len(Announced) = 1
    /\ DOMAIN baobzi_funs = { "bessel_I0" } /\ Len(Created) = 1

\* C15: each approximant is built exactly once per run, with the domain of
\* its function; every timed call on it, in either configuration, uses that
\* one handle; and the approximant exists from its construction until
\* main() returns, after the last call.
C15_BuiltOnceAndOwned ==
    /\ [](pc \notin { "main", "baobzi" } =>
            /\ Len(Created) = Cardinality(ToApproximate)
            /\ \A n \in ToApproximate :
                  /\ Len(SelectSeq(Created, LAMBDA e : e.name = n)) = 1
                  /\ Created[baobzi_funs[n].id].name = n
                  /\ baobzi_funs[n].obj = create_baobzi_func(n, ParamsAt(ParamsTable, n)))
    /\ [](calls # << >> =>
            LET c == calls[Len(calls)] IN
              (c.map = "baobzi_funs" /\ c.name \in ToApproximate) =>
                 /\ c.f = baobzi_funs[c.name]
                 /\ pc # "done" => c.f.id \in live)
    /\ [][live' # live => (live \subseteq live' \/ (pc' = "done" /\ calls' = calls))]_vars

\* C15 witness: the approximant of bessel_I0 has just been evaluated in the
\* second configuration by the handle built before the first.
C15_Witness ==
    /\ pc = "sweep" /\ run = 2 /\ calls # << >> /\ Len(Created) = 1
    /\ LET c == calls[Len(calls)] IN
          /\ c.map = "baobzi_funs" /\ c.name = "bessel_I0"
          /\ c.f = baobzi_funs["bessel_I0"] /\ c.f.id \in live
          /\ \E i \in 1..Len(calls) : calls[i].run = 1 /\ calls[i].f = c.f


(***************************************************************************)
(* Startup with symbols of libalm.so missing (SpecDL).  main() calls       *)
(* dlopen and dlsym and tests neither result; a symbol that did not        *)
(* resolve leaves a null function pointer inside the adapters built on it. *)
(***************************************************************************)
\* The symbol the adapter of a map for a name calls, for the adapters of
\* "sin"; << >> for an adapter that calls no symbol of libalm.so.
Symbol(map, name) ==
    IF name # "sin" THEN << >>
    ELSE CASE map = "amdlibm_funs_fx1" -> "amd_sinf"
           [] map = "amdlibm_funs_dx1" -> "amd_sin"
           [] map = "amdlibm_funs_fx8" -> "amd_vrs8_sinf"
           [] map = "amdlibm_funs_dx4" -> "amd_vrd4_sin"
           [] OTHER -> << >>

SymbolPool == { "amd_sinf", "amd_sin", "amd_vrs8_sinf", "amd_vrd4_sin" }

\* dlopen failed (every symbol is missing) or dlsym failed for some.
InitDL ==
    /\ avx512 \in BOOLEAN
    /\ argv \in { a \in ArgVectors : Len(a) = 1 }
    /\ pc = "main"
    /\ input_keys = {} /\ fun_union = {} /\ keys_to_eval = {}
    /\ params = ParamsTable
    /\ baobzi_funs = << >>
    /\ run = 0 /\ key = End /\ slot = 0
    /\ cout = << >> /\ cerr = << >> /\ calls = << >>
    /\ unresolved \in (SUBSET SymbolPool) \ { {} }
    /\ live = {} /\ rand_pos = 0 /\ vecs = << >>
    /\ TFIdle /\ TDIdle /\ RegIdle

\* The call of an adapter through a null function pointer is undefined: it
\* may end the process at once (this step), or return (step Probe).
ProbeCrash ==
    /\ pc = "sweep" /\ key # End /\ slot <= Len(Sweep(avx512))
    /\ key \in Funs(Sweep(avx512)[slot].map, baobzi_funs)
    /\ Symbol(Sweep(avx512)[slot].map, key) \in unresolved
    /\ pc' = "crashed"
    /\ UNCHANGED << avx512, argv, input_keys, fun_union, keys_to_eval, params,
                    baobzi_funs, run, key, slot, cout, cerr, calls >>
    /\ UNCHANGED unresolved
    /\ UNCHANGED live
    /\ UNCHANGED sampleVars
    /\ UNCHANGED nonMainVars

NextDL ==
    \/ Dispatch
    \/ CreateBaobzi
    \/ SkipBaobzi
    \/ EndBaobzi
    \/ StartRunSet
    \/ Probe
    \/ ProbeCrash
    \/ Separator
    \/ EndRunSet
    \/ Return

SpecDL == InitDL /\ [][NextDL]_vars

\* C16: when a required symbol (or the library holding it) does not
\* resolve, the run is aborted at startup: no adapter built on a missing
\* symbol is registered and evaluated, and no configuration is started.
C16_UnresolvedAborts ==
    unresolved # {} =>
        /\ pc \in { "main", "aborted" }
        /\ Announced = << >>
        /\ \A i \in 1..Len(calls) :
              ~(calls[i].name \in Funs(calls[i].map, baobzi_funs)
                /\ Symbol(calls[i].map, calls[i].name) \in unresolved)


(***************************************************************************)
(* The filter and tokens no backend knows (Spec).                          *)
(***************************************************************************)
\* The tokens of the pool that are a key of no backend.
UnknownTokens == FilterPool \ BackendKeyUnion

\* The requested set of the run had token t been given as well; compared
\* with keys_to_eval while the construction loop runs, which is from the
\* moment keys_to_eval is computed, after which it never changes.
RequestedWith(t) ==
    KeysToEval(fun_union, parse_args(Len(argv) + 1, Append(argv, t)))

\* C17 as stated: for every filter, the empty one included, one more token
\* that no backend knows leaves the requested set as it is.
C17_UnknownTokenIgnored ==
    pc = "baobzi" => \A t \in UnknownTokens : RequestedWith(t) = keys_to_eval

\* C17, amended: for every non-empty filter, one more token that no backend
\* knows leaves the requested set as it is.
C17_UnknownTokenIgnoredNonEmpty ==
    (pc = "baobzi" /\ Len(argv) > 0) =>
        \A t \in UnknownTokens : RequestedWith(t) = keys_to_eval

\* C17 witness: the run filtered by "sin" requests "sin", and would with an
\* unknown token added.
C17_Witness ==
    /\ pc = "baobzi" /\ argv = << "sin" >> /\ keys_to_eval = { "sin" }
    /\ "not_a_function" \in UnknownTokens
    /\ RequestedWith("not_a_function") = { "sin" }


(***************************************************************************)
(* Two consecutive statements std::cout << test_func(...) of the sweep,    *)
(* each stepped through test_func and operator<< (SpecSeq).                *)
(***************************************************************************)
\* The adapters the two calls choose from: one of each kind of outcome.
SeqAdapters == { a \in Adapters : a.kind \in { "scalar", "pair" } } \cup { NoAdapter }

InitSeq ==
    /\ MainIdle /\ TDIdle /\ RegIdle
    /\ tpc = "enter"
    /\ fn \in SeqAdapters
    /\ n_in \in Sizes
    /\ Nrepeat \in 1..MaxRepeat
    /\ k = 0 /\ buf = << >> /\ st = << >> /\ ft = << >> /\ br = << >> /\ os = << >>
    /\ ncall = 1 /\ log = << >> /\ stamp = << >>

\* The statement is done; main() goes on to the next one, a test_func call
\* with the same vector size and repeat count on another map.
TFNext ==
    /\ tpc = "done" /\ ncall = 1
    /\ ncall' = ncall + 1
    /\ fn' \in SeqAdapters
    /\ tpc' = "enter"
    /\ k' = 0 /\ buf' = << >> /\ st' = << >> /\ ft' = << >> /\ br' = << >>
    /\ stamp' = << >>
    /\ UNCHANGED << n_in, Nrepeat, os, log >>
    /\ UNCHANGED nonTFVars

NextSeq ==
    \/ TFAbsent
    \/ TFConstruct
    \/ TFStart
    \/ TFRepeat
    \/ TFStop
    \/ TFShow
    \/ TFNext

SpecSeq == InitSeq /\ [][NextSeq]_vars

\* The number of events e in a log.
Count(l, e) == Len(SelectSeq(l, LAMBDA x : x.e = e))

\* C18: execution is sequential.  At most one timed window is open; a
\* result line directly follows the stop reading of its own probe; a start
\* reading is the first event or directly follows the line of the probe
\* before; and a window holds exactly the Nrepeat passes of its probe, one
\* after another.
C18_Sequential ==
    /\ Count(log, "start") - Count(log, "stop") \in { 0, 1 }
    /\ \A i \in 1..Len(log) :
          /\ log[i].e = "line" =>
                (i > 1 /\ log[i - 1].e = "stop" /\ log[i - 1].call = log[i].call)
          /\ log[i].e = "start" =>
                (i = 1 \/ (log[i - 1].e = "line" /\ log[i - 1].call < log[i].call))
          /\ log[i].e = "pass" =>
                (i > 1 /\ log[i - 1].e \in { "start", "pass" }
                       /\ log[i - 1].call = log[i].call)
          /\ log[i].e = "stop" =>
                /\ i > Nrepeat + 1
                /\ log[i - Nrepeat - 1].e = "start"
                /\ \A j \in (i - Nrepeat)..(i - 1) : log[j].e = "pass"
                /\ \A j \in (i - Nrepeat - 1)..(i - 1) : log[j].call = log[i].call

\* C18 witness: two probes of two repeats each have run and written their
\* lines, the second window opened after the first line.
C18_Witness ==
    /\ tpc = "done" /\ ncall = 2 /\ Nrepeat = 2 /\ Len(os) = 2
    /\ Len(log) = 10
    /\ log[5].e = "line" /\ log[5].call = 1 /\ log[6].e = "start" /\ log[6].call = 2
    /\ log[10].e = "line"


(***************************************************************************)
(* The domains (Spec).                                                     *)
(***************************************************************************)
\* C19: every domain used for mapping has lower < upper: every entry of
\* the table of main(), the entries operator[] adds, the default domain a
\* name without an entry gets, and so the domain of every measured call.
C19_DomainsOrdered ==
    /\ DefaultDomain[1] < DefaultDomain[2]
    /\ \A n \in DOMAIN params : params[n][1] < params[n][2]
    /\ \A n \in keys_to_eval : ParamsAt(params, n)[1] < ParamsAt(params, n)[2]
    /\ \A n \in DOMAIN baobzi_funs : baobzi_funs[n].obj.lo < baobzi_funs[n].obj.hi
    /\ calls # << >> =>
          LET c == calls[Len(calls)] IN c.domain # << >> => c.domain[1] < c.domain[2]

\* C19 witness: in a run that also requests sin, which has an entry,
\* bessel_I0, which has none, has just been measured over the default domain.
C19_Witness ==
    /\ argv = << "sin", "bessel_I0" >> /\ pc = "sweep" /\ calls # << >>
    /\ "bessel_I0" \notin DOMAIN ParamsTable /\ "sin" \in DOMAIN ParamsTable
    /\ LET c == calls[Len(calls)] IN
          c.name = "bessel_I0" /\ c.domain = DefaultDomain /\ c.domain[1] < c.domain[2]


(***************************************************************************)
(* Termination (Spec).                                                     *)
(***************************************************************************)
\* The keys a loop over keys_to_eval has not finished, the current one
\* included.
KeysLeft == IF key = End THEN 0
            ELSE Cardinality({ x \in keys_to_eval : x = key \/ Less(key, x) })

\* The steps one run_set takes: its start, a sweep and a separator for
\* every key, and its end.
RunSetSteps == 2 + Cardinality(keys_to_eval) * (Len(Sweep(avx512)) + 1)

\* The steps main() has yet to take; before the requested set is known, a
\* number larger than any later one.
StepsLeft ==
    CASE pc = "main"     -> 1000000
      [] pc = "baobzi"   -> KeysLeft + 1 + Len(run_sets) * RunSetSteps + 1
      [] pc = "run_sets" -> (Len(run_sets) + 1 - run) * RunSetSteps + 1
      [] pc = "sweep"    ->
           (IF key = End THEN 0
            ELSE (Len(Sweep(avx512)) + 1 - slot) + 1
                 + (KeysLeft - 1) * (Len(Sweep(avx512)) + 1))
           + 1 + (Len(run_sets) - run) * RunSetSteps + 1
      [] OTHER           -> 0

\* C20: for every filter the run ends: every step lessens the number of
\* steps left, which is never negative, so nothing is retried, repeated or
\* waited for; and when the run has ended it has made exactly
\* 2 * |requested set| * |backends| probes after the approximants were
\* built, each configuration announced once.
C20_TerminatesAfterAllProbes ==
    /\ [][StepsLeft' < StepsLeft]_vars
    /\ [](StepsLeft >= 0 /\ (StepsLeft = 0 <=> pc = "done"))
    /\ [](pc = "done" =>
            /\ Len(calls) = 2 * Cardinality(keys_to_eval) * Cardinality(Backends(avx512))
            /\ Len(Announced) = 2
            /\ Len(Created) = Cardinality(ToApproximate))


(***************************************************************************)
(* The timed window of one test_func call (SpecTF).                        *)
(***************************************************************************)
\* No slot of the output buffer has been written.
Untouched == \A s \in DOMAIN buf : buf[s] = {}

\* The events of the log that belong to the timed window.
Window == SelectSeq(log, LAMBDA x : x.e \in { "start", "pass", "stop" })

\* C21: a call with a present adapter first maps the domain and allocates
\* the output buffer, then takes the start reading, then runs exactly
\* Nrepeat passes over the whole buffer, then takes the stop reading, and
\* sets elapsed = stop - start; there is one window for all passes, and no
\* pass runs before the start or after the stop reading.
C21_OneTimedWindow ==
    /\ [][st' # st =>
            /\ st = << >> /\ ft = << >>
            /\ br # << >> /\ br.size = ResSize(fn.fun_t, n_in)
            /\ DOMAIN buf = 0..(br.size - 1) /\ Untouched
            /\ buf' = buf /\ k' = 0 ]_vars
    /\ [][buf' # buf =>
            \/ buf = << >> /\ st = << >> /\ Untouched'
            \/ st # << >> /\ st' = st /\ ft = << >> /\ ft' = << >>
               /\ k < Nrepeat /\ k' = k + 1 ]_vars
    /\ [][ft' # ft =>
            /\ st # << >> /\ st' = st /\ ft = << >>
            /\ k = Nrepeat /\ buf' = buf
            /\ NotBefore(st, ft')
            /\ br'.eval_time = get_wtime_diff(st, ft') ]_vars
    /\ []((tpc \in { "return", "done" } /\ br # << >> /\ Prints(br)) =>
            /\ Len(Window) = Nrepeat + 2
            /\ Window[1].e = "start" /\ Window[1].t = st
            /\ \A i \in 2..(Nrepeat + 1) : Window[i].e = "pass"
            /\ Window[Nrepeat + 2].e = "stop" /\ Window[Nrepeat + 2].t = ft
            /\ br.eval_time = get_wtime_diff(st, ft))

\* C21 witness: a batched adapter has run two passes between a start and a
\* later stop reading, and the call is about to return.
C21_Witness ==
    /\ tpc = "return" /\ fn.kind = "vec" /\ Nrepeat = 2 /\ k = 2
    /\ st # << >> /\ ft # << >> /\ st # ft
    /\ Len(Window) = 4 /\ Window[2].e = "pass" /\ Window[3].e = "pass"
    /\ ~Untouched


(***************************************************************************)
(* What the output buffer holds (SpecTF).                                  *)
(***************************************************************************)
\* C22: after Nrepeat >= 1 repeats every slot of res.res holds the value
\* the final repeat stored: each repeat stores to all M * |inputs| slots of
\* the one buffer, so after repeat k every slot holds the value of repeat
\* k, none is unwritten and none keeps an earlier value; and the mean of
\* operator<< is taken over exactly these slots.
C22_FinalRepeatRetained ==
    (br # << >> /\ Prints(br)) =>
        /\ DOMAIN stamp = 0..(br.size - 1)
        /\ br.size = (IF fn.kind = "pair" THEN 2 ELSE 1) * n_in
        /\ \A s \in DOMAIN stamp : stamp[s] = k
        /\ tpc \in { "return", "done" } =>
              /\ k = Nrepeat
              /\ MeanSlots(br) = DOMAIN stamp
              /\ \A s \in MeanSlots(br) : stamp[s] = Nrepeat /\ buf[s] # {}

\* C22 witness: a 16-lane adapter has returned after two repeats, and the
\* last slot holds what the second repeat stored.
C22_Witness ==
    /\ tpc = "done" /\ fn.kind = "sctl" /\ fn.lanes = 16 /\ Nrepeat = 2
    /\ Prints(br) /\ stamp[br.size - 1] = 2 /\ stamp[0] = 2


(***************************************************************************)
(* The stride loops of the batched adapters (Spec).                        *)
(***************************************************************************)
\* The maps filled by vec_func_apply or sctl_apply.
BatchedMaps == { m \in DOMAIN Maps : LaneWidth(m) > 1 }

\* C23: in both configurations the length of the vector handed to a batched
\* adapter is a multiple of the adapter's lane width, which is 4, 8 or 16,
\* so the stride loop of the adapter ends at index N and touches no index
\* >= N of its input or output buffer.
C23_WholeVectors ==
    /\ \A m \in BatchedMaps : LaneWidth(m) \in { 4, 8, 16 }
    /\ \A r \in 1..Len(run_sets) : \A m \in BatchedMaps :
          /\ run_sets[r][1] % LaneWidth(m) = 0
          /\ StrideEnd(run_sets[r][1], LaneWidth(m)) = run_sets[r][1]
    /\ calls # << >> =>
          LET c == calls[Len(calls)]
              N == run_sets[c.run][1]
          IN  (c.name \in Funs(c.map, baobzi_funs) /\ c.map \in BatchedMaps) =>
                 /\ N % LaneWidth(c.map) = 0
                 /\ StrideEnd(N, LaneWidth(c.map)) <= N

\* C23 witness: the 16-lane sctl adapter of "copy" has just been evaluated
\* on the vector of the second configuration.
C23_Witness ==
    /\ pc = "sweep" /\ run = 2 /\ calls # << >>
    /\ LET c == calls[Len(calls)] IN
          /\ c.map = "sctl_funs_fx16" /\ c.name = "copy" /\ c.run = 2
          /\ c.name \in Funs(c.map, baobzi_funs)
          /\ LaneWidth(c.map) = 16
          /\ StrideEnd(run_sets[2][1], 16) = 10240000


(***************************************************************************)
(* The interval of an approximant and the inputs it is given (Spec).       *)
(***************************************************************************)
\* Value v of a sample, in Unit-ths, mapped into a domain given in
\* thousandths: v * (upper - lower) + lower, in Unit-ths of a thousandth.
MappedInto(v, domain) == v * (domain[2] - domain[1]) + domain[1] * Unit

JustMeasured ==
    /\ pc = "sweep" /\ slot > 1 /\ calls # << >>
    /\ calls[Len(calls)].domain # << >>

\* C25: a name without an entry in the table is mapped with the default
\* domain (0, 1), which leaves the sample as it is; the entry test_func
\* looks up is inserted into its own copy of the table, the table of main()
\* holds only what main() put there; every probe of a name uses the domain
\* that is a function of the name alone, and the domain written in the
\* result line is the one the inputs were mapped with.
C25_DefaultDomainPerName ==
    /\ pc # "main" =>
          /\ DOMAIN params = DOMAIN ParamsTable \cup DOMAIN baobzi_funs
          /\ \A n \in DOMAIN params : params[n] = ParamsAt(ParamsTable, n)
    /\ JustMeasured =>
          LET c == calls[Len(calls)] IN
            /\ c.domain = ParamsAt(ParamsTable, c.name)
            /\ c.domain = ParamsAt(params, c.name)
            /\ cout[Len(cout)] = [ label |-> Label(c.prefix, c.name), domain |-> c.domain ]
            /\ c.name \notin DOMAIN ParamsTable =>
                  /\ c.domain = << 0, 1000 >>
                  /\ \A j \in DOMAIN c.vals_in :
                        c.vals \in { "float", "double" } =>
                           MappedInto(c.vals_in[j], c.domain) = c.vals_in[j] * 1000

\* C25 witness: hank103, without an entry and without an approximant, has
\* just been measured in the second configuration over (0, 1), and the
\* table of main() still has no entry for it; copy, without an entry too,
\* was measured on a real sample before.
C25_Witness ==
    /\ JustMeasured /\ run = 2 /\ argv = << "copy", "hank103" >>
    /\ "hank103" \notin DOMAIN params /\ "copy" \notin DOMAIN params
    /\ calls[Len(calls)].name = "hank103"
    /\ calls[Len(calls)].domain = DefaultDomain
    /\ cout[Len(cout)].domain = DefaultDomain
    /\ \E i \in 1..Len(calls) :
          calls[i].name = "copy" /\ calls[i].run = 2 /\ calls[i].domain = DefaultDomain


(***************************************************************************)
(* Which approximants a run builds (Spec).                                 *)
(***************************************************************************)
\* The names construction messages were written for.
CreatedNames == { Created[i].name : i \in 1..Len(Created) }

\* C26: the approximants built in a run are exactly the requested names
\* that have a scalar oracle in potential_baobzi_funs: none is built for a
\* name the filter leaves out or for a name without an oracle, and when the
\* first configuration starts every requested name with an oracle has one.
C26_ApproximantsRequestedOnly ==
    /\ DOMAIN baobzi_funs \subseteq keys_to_eval \cap potential_baobzi_funs
    /\ CreatedNames = DOMAIN baobzi_funs
    /\ Len(argv) > 0 => DOMAIN baobzi_funs \subseteq Range(argv)
    /\ pc = "baobzi" =>
          DOMAIN baobzi_funs =
              { n \in keys_to_eval \cap potential_baobzi_funs : key = End \/ Less(n, key) }
    /\ pc \in { "run_sets", "sweep", "done" } =>
          DOMAIN baobzi_funs = keys_to_eval \cap potential_baobzi_funs

\* C26 witness: of the requested sin and bessel_I0 only bessel_I0 has an
\* oracle; its approximant exists as the first configuration is about to
\* start, and sin has none.
C26_Witness ==
    /\ pc = "run_sets" /\ run = 1 /\ argv = << "sin", "bessel_I0" >>
    /\ keys_to_eval = { "sin", "bessel_I0" }
    /\ DOMAIN baobzi_funs = { "bessel_I0" }
    /\ CreatedNames = { "bessel_I0" }
    /\ Cardinality(potential_baobzi_funs) = 13


(***************************************************************************)
(* Every requested name is measured somewhere (Spec).                      *)
(***************************************************************************)
\* The maps the sweep calls test_func with.
SweepMaps == { Sweep(avx512)[i].map : i \in 1..Len(Sweep(avx512)) }

\* The sweep of the current key has made its last test_func call.
KeySwept == pc = "sweep" /\ key # End /\ slot > Len(Sweep(avx512))

\* C27: every map whose keys go into fun_union is probed in the sweep, so
\* every requested name is a key of at least one probed map and gets at
\* least one result line in each configuration: when the separator of a
\* name is written, a line of that name stands right before it.  (The
\* requested set and the maps are fixed once a configuration starts; they
\* are compared where the loop over run_sets stands.)
C27_RequestedIsMeasured ==
    /\ pc = "run_sets" =>
          /\ FunUnionMaps(avx512) \subseteq SweepMaps
          /\ \A n \in keys_to_eval : \E m \in SweepMaps : n \in Funs(m, baobzi_funs)
    /\ KeySwept =>
          /\ cout # << >> /\ cout[Len(cout)] # Blank
          /\ \E i \in 1..Len(Sweep(avx512)) :
                cout[Len(cout)].label = Label(Sweep(avx512)[i].prefix, key)
          /\ calls[Len(calls)].run = run
    /\ (cout # << >> /\ cout[Len(cout)] = Blank) =>
          (Len(cout) >= 2 /\ cout[Len(cout) - 1] # Blank)

\* C27 witness: hank103, a key of one map only, has been swept in the
\* second configuration; its one line stands last, after the line and the
\* separator of the first configuration.
C27_Witness ==
    /\ KeySwept /\ run = 2 /\ argv = << "hank103" >> /\ key = "hank103"
    /\ Cardinality({ m \in SweepMaps : "hank103" \in Funs(m, baobzi_funs) }) = 1
    /\ Len(cout) = 3 /\ cout[2] = Blank
    /\ cout[3].label = "hank10x_dx1_hank103"


(***************************************************************************)
(* A call for a name its map lacks (SpecSeq).                              *)
(***************************************************************************)
\* The events of the log that the current call made.
OwnEvents == SelectSeq(log, LAMBDA x : x.call = ncall)

\* C28: for a name absent from the map, test_func returns before it maps
\* the domain, allocates the output buffer or reads the clock: the result
\* has size 0, eval_time 0 and an evaluation count no one has set, no pass
\* of an adapter has run, and operator<< writes no line for it, so that
\* Mevals() is never computed from the unset count and the zero time.
C28_AbsentReturnsEarly ==
    /\ (fn # << >> /\ fn.kind = "absent" /\ tpc \in { "return", "done" }) =>
          /\ br = BenchResult1(Label(fn.prefix, fn.name))
          /\ br.size = 0 /\ br.eval_time = Zero /\ br.n_evals = Unset
          /\ st = << >> /\ ft = << >>
          /\ buf = << >> /\ stamp = << >> /\ k = 0
          /\ OwnEvents = << >>
          /\ Len(os) <= ncall - 1
    /\ \A i \in 1..Len(os) :
          /\ os[i].Mevals.class \in { "finite", "inf" }
          /\ os[i].Mevals.evals # Unset

\* C28 witness: after a measured call that wrote its line, a call for a
\* name its map lacks has returned and been passed to operator<<, and the
\* stream holds the one line still.
C28_Witness ==
    /\ tpc = "done" /\ ncall = 2 /\ fn.kind = "absent"
    /\ br.size = 0 /\ br.n_evals = Unset /\ Mevals(br).class = "indeterminate"
    /\ Len(os) = 1 /\ Count(log, "line") = 1 /\ Count(log, "start") = 1


(***************************************************************************)
(* The adapter builders scalar_func_apply, vec_func_apply and sctl_apply   *)
(* (SpecReg).  Each keeps its wrapper in a function-local                  *)
(*     static const auto fn = [f](const Real *, Real *, size_t) {...};     *)
(* which is initialized the first time control passes through it, once for *)
(* every instantiation of the template, and returns a copy of fn.          *)
(***************************************************************************)
Builders == { "scalar_func_apply", "vec_func_apply", "sctl_apply" }

\* The callables a builder is called with: type is the template argument F
\* deduced for it, target what it computes.  Every lambda expression has a
\* closure type of its own; two function pointers of one signature have
\* one type.
Callables ==
    { [ type |-> "lambda_1", target |-> "sin" ],
      [ type |-> "lambda_2", target |-> "cos" ],
      [ type |-> "C_FUN1D",  target |-> "amd_sin" ],
      [ type |-> "C_FUN1D",  target |-> "amd_cos" ] }

\* The names adapters are stored under.
RegNames == { "sin", "cos" }

\* The instantiation of a builder template for a callable: the builder and
\* F (Real and the vector type are the same in all calls of the model).
Inst(builder, c) == << builder, c.type >>

\* The statics after the call builder(c): fn of the instantiation captures
\* c if this is the first pass through its definition, and is left as it
\* is otherwise.
StaticsAfter(statics, builder, c) ==
    IF Inst(builder, c) \in DOMAIN statics THEN statics
    ELSE MapPut(statics, Inst(builder, c), c.target)

\* return fn: the std::function returned holds a copy of the static fn.
Returned(statics, builder, c) ==
    [ builder |-> builder, f |-> StaticsAfter(statics, builder, c)[Inst(builder, c)] ]

InitReg ==
    /\ MainIdle /\ TFIdle /\ TDIdle
    /\ static_fn = << >> /\ registered = << >> /\ ran = {}

\* {name, builder(c)}: an adapter is built and stored under a name.
Register ==
    /\ Len(registered) < MaxRegs
    /\ \E name \in RegNames, builder \in Builders, c \in Callables :
          /\ static_fn' = StaticsAfter(static_fn, builder, c)
          /\ registered' = Append(registered,
                                  [ name |-> name, passed |-> c.target,
                                    adapter |-> Returned(static_fn, builder, c) ])
    /\ UNCHANGED ran
    /\ UNCHANGED nonRegVars

\* f(vals.data(), resptr, vals.size()) on the adapter of a registration:
\* the callable its wrapper captured is applied.
Evaluate ==
    /\ \E i \in 1..Len(registered) :
          /\ << i, registered[i].adapter.f >> \notin ran
          /\ ran' = ran \cup { << i, registered[i].adapter.f >> }
    /\ UNCHANGED << static_fn, registered >>
    /\ UNCHANGED nonRegVars

NextReg ==
    \/ Register
    \/ Evaluate

SpecReg == InitReg /\ [][NextReg]_vars

\* C29: for any sequence of registrations, the adapter a builder returns
\* applies the callable passed to the call that returned it, never the
\* callable of an earlier registration.
C29_AdapterAppliesOwnCallable ==
    /\ \A i \in 1..Len(registered) : registered[i].adapter.f = registered[i].passed
    /\ \A e \in ran : e[2] = registered[e[1]].passed


(***************************************************************************)
(* The elapsed time (SpecTF).                                              *)
(***************************************************************************)
\* The reading that lies d = << seconds, nanoseconds >> after reading ts.
Later(ts, d) ==
    [ tv_sec  |-> ts.tv_sec + d[1] + ((ts.tv_nsec + d[2]) \div NSEC_PER_SEC),
      tv_nsec |-> (ts.tv_nsec + d[2]) % NSEC_PER_SEC ]

\* C30: for a stop reading not earlier than the start reading, both with
\* 0 <= tv_nsec < 10^9, get_wtime_diff returns a value >= 0 that is the
\* difference of the two readings in nanoseconds times 10^-9, also when
\* the nanosecond field of the stop reading is the smaller one.
C30_ElapsedIsDifference ==
    (st # << >> /\ ft # << >>) =>
        /\ NotBefore(st, ft)
        /\ st.tv_nsec \in 0..(NSEC_PER_SEC - 1) /\ ft.tv_nsec \in 0..(NSEC_PER_SEC - 1)
        /\ br.eval_time = get_wtime_diff(st, ft)
        /\ br.eval_time[1] >= 0
        /\ br.eval_time[2] \in 0..(NSEC_PER_SEC - 1)
        /\ Later(st, br.eval_time) = ft

\* C30 witness: the window was opened at 0 s 999999999 ns and closed at
\* 1 s 0 ns; the elapsed time is one nanosecond.
C30_Witness ==
    /\ tpc = "return" /\ st # << >> /\ ft # << >>
    /\ ft.tv_nsec < st.tv_nsec /\ ft.tv_sec = st.tv_sec + 1
    /\ br.eval_time = << 0, 1 >>

=============================================================================
